---- MODULE Spec2Model ----
(***************************************************************************)
(* pyNTM Model (src/pyNTM/model.py): the failure/recovery operations, the  *)
(* validator and the simulation pass, as a state machine.                  *)
(*                                                                         *)
(* An Interface object is identified by a number (its object identity);    *)
(* the model's interface set iterates in increasing identity, so the       *)
(* identity also stands for the object's place in the set's iteration      *)
(* order.  Node objects are identified by their name: every Interface      *)
(* refers to the Node objects held in Model.node_objects.                  *)
(***************************************************************************)
EXTENDS Integers, Sequences, FiniteSets, TLC

\* ---------------------------------------------------------------- bounds
MaxAddCircuit == 1      \* add_circuit calls in one behaviour
MaxAddSrlg == 1         \* add_srlg calls that succeed in one behaviour
MaxSrlgs == 2           \* SRLGs of the models that validate_srlg_nodes is run on

\* ------------------------------------------------------- the model's data
Nodes == {"A", "B", "C"}
AddNodeNames == {"A", "D"}     \* the names add_node is called with
AllNodes == Nodes \cup AddNodeNames
SrlgNames == {"srlg1", "srlg2"}
SrlgMembers == {"A", "B"}   \* the nodes add_to_srlg is called with
InitIntfIds == {2, 3, 4, 5}
IntfIds == 1..(Cardinality(InitIntfIds) + 2 * MaxAddCircuit)
AddNames == {"A-to-B", "new"}
AddEnds == {<<"A", "B">>, <<"A", "C">>, <<"C", "A">>}
\* the RSVP LSPs a model can hold, by their _key (source, dest, name), in
\* the order rsvp_lsp_objects iterates
LspSeq == <<<<"A", "C", "lsp_a_c">>, <<"A", "C", "lsp_a_c_2">>,
            <<"A", "C", "lsp_new">>, <<"B", "C", "lsp_a_c">>>>
LspNames == {LspSeq[k] : k \in 1..Len(LspSeq)}
\* the Demands a model can hold, by (source, dest, name), in the order
\* demand_objects iterates
DemandSeq == <<<<"A", "C", "dmd_a_c">>>>
DemandNames == {DemandSeq[k] : k \in 1..Len(DemandSeq)}

VARIABLES
    node_objects,       \* Model.node_objects: the node names
    node_failed,        \* Node.failed of every node
    node_srlgs,         \* Node.srlgs of every node
    interface_objects,  \* Model.interface_objects: identity -> attributes
    circuit_objects,    \* Model.circuit_objects: pairs of identities
    srlg_objects,       \* Model.srlg_objects: the SRLG names
    srlg_failed,        \* SRLG.failed of every SRLG
    srlg_default_nodes, \* the set object bound to SRLG.__init__'s default
    rsvp_lsp_objects,   \* Model.rsvp_lsp_objects: _key -> attributes
    demand_objects,     \* Model.demand_objects: (source, dest, name) -> attributes
    demand_path,        \* Demand.path
    ret,                \* what the last call returned
    lsp_path,           \* RSVP_LSP.path
    lsp_reserved,       \* RSVP_LSP.reserved_bandwidth
    n_add_circuit,      \* add_circuit calls so far
    last,               \* the call that produced this state and its outcome
    saved,              \* interface attributes before the last fail_interface
    tracking,           \* whether this behaviour records the causes of failure
    causes              \* the fail calls not yet undone by their unfail call

vars == <<node_objects, node_failed, node_srlgs, interface_objects,
          circuit_objects, srlg_objects, srlg_failed, srlg_default_nodes,
          lsp_path, lsp_reserved, n_add_circuit, last, saved, tracking, causes,
          rsvp_lsp_objects, demand_objects, demand_path, ret>>

\* --------------------------------------------------------------- helpers
RECURSIVE SetToSeq(_)
SetToSeq(S) ==
    IF S = {} THEN <<>>
    ELSE LET m == CHOOSE x \in S : \A y \in S : x <= y
         IN  <<m>> \o SetToSeq(S \ {m})

RECURSIVE Dedup(_)
Dedup(s) ==
    IF s = <<>> THEN <<>>
    ELSE LET r == Dedup(SubSeq(s, 1, Len(s) - 1))
             l == s[Len(s)]
         IN  IF \E k \in 1..Len(r) : r[k] = l THEN r ELSE Append(r, l)

Range(s) == {s[k] : k \in 1..Len(s)}

Orders(S) ==
    {p \in [1..Cardinality(S) -> S] : \A a, b \in 1..Cardinality(S) : p[a] = p[b] => a = b}

Unrouted == [routed |-> FALSE, interfaces |-> <<>>, cost |-> 0]

NoCall == [op |-> "init", id |-> 0, node |-> "", srlg |-> "",
           raise_exception |-> FALSE, exc |-> "none"]

Call(op, id, node, srlg, re, exc) ==
    [op |-> op, id |-> id, node |-> node, srlg |-> srlg,
     raise_exception |-> re, exc |-> exc]

\* ------------------------------------------------- Interface, Node, RSVP
Interface(name, cost, capacity, node, remote, circuit_id) ==
    [name |-> name, cost |-> cost, capacity |-> capacity, node |-> node,
     remote |-> remote, circuit_id |-> circuit_id, failed |-> FALSE,
     reserved_bandwidth |-> 0, traffic |-> 0, rsvp_enabled |-> TRUE,
     percent_reservable_bandwidth |-> 100]

reservable_bandwidth(intf) ==
    (intf.capacity * intf.percent_reservable_bandwidth) \div 100 - intf.reserved_bandwidth

_key(intf) == <<intf.name, intf.node>>

\* Node.interfaces(model): the interfaces whose owning node has this name
node_interfaces(I, node_name) == {i \in DOMAIN I : I[i].node = node_name}

\* Interface.get_remote_interface(model): the interface on the remote node
\* with the same circuit_id, 0 when the model has none
get_remote_interface(I, i) ==
    LET c == {j \in DOMAIN I : I[j].node = I[i].remote /\ I[j].circuit_id = I[i].circuit_id}
    IN  IF c = {} THEN 0 ELSE SetToSeq(c)[1]

\* RSVP_LSP(source_node_object, dest_node_object, lsp_name,
\* configured_setup_bandwidth); -1 stands for None
RSVP_LSP(source, dest, setup_bandwidth) ==
    [source |-> source, dest |-> dest, setup_bandwidth |-> setup_bandwidth]

\* Demand(source_node_object, dest_node_object, traffic, name)
Demand(source, dest, traffic) == [source |-> source, dest |-> dest, traffic |-> traffic]

\* Demand.path = 'Unrouted'
UnroutedDemand == [routed |-> FALSE, paths |-> <<>>, share |-> 0]

NoRet == [kind |-> "none"]

\* ------------------------------------------------------------ the lookups
get_interface_object_from_nodes(I, local, remote) ==
    LET c == {i \in DOMAIN I : I[i].node = local /\ I[i].remote = remote}
    IN  IF c = {} THEN 0 ELSE SetToSeq(c)[1]

_does_interface_exist(I, name, node) ==
    \E i \in DOMAIN I : _key(I[i]) = <<name, node>>

\* 0 stands for the ModelException of a missing interface or node
get_interface_object(I, name, node) ==
    IF ~_does_interface_exist(I, name, node) \/ node \notin node_objects THEN 0
    ELSE SetToSeq({i \in node_interfaces(I, node) : I[i].name = name})[1]

\* how a lookup ends: it returns the object found; when there is none it
\* raises ModelException if its code raises, else it returns None
lookup_result(found, raises) ==
    [found |-> found,
     exc |-> IF ~found /\ raises THEN "ModelException" ELSE "none",
     returned_none |-> ~found /\ ~raises]

get_node_object(node_name) == lookup_result(node_name \in node_objects, TRUE)

get_demand_object(source, dest, name) ==
    lookup_result(<<source, dest, name>> \in DOMAIN demand_objects, TRUE)

get_rsvp_lsp(source, dest, name) ==
    lookup_result(<<source, dest, name>> \in DOMAIN rsvp_lsp_objects, TRUE)

get_srlg_object(srlg_name, raise_exception) ==
    lookup_result(srlg_name \in srlg_objects, raise_exception)

\* ------------------------------------------------------ the graph builder
\* The DiGraph of _make_weighted_network_graph: its edges in the order
\* G.edges yields them (by tail node in order of insertion, then by order of
\* insertion of the edge), the cost of each edge (the last interface added
\* for a node pair sets it) and its vertices.
\* the edges of edgeseq by tail node, the tail nodes in the order ns
RECURSIVE edges_by_node(_, _)
edges_by_node(edgeseq, ns) ==
    IF ns = <<>> THEN <<>>
    ELSE SelectSeq(edgeseq, LAMBDA e : e[1] = Head(ns)) \o edges_by_node(edgeseq, Tail(ns))

\* the endpoints of the edge list raw in order of appearance
edge_endpoints(raw) ==
    [k \in 1..(2 * Len(raw)) |->
        IF k % 2 = 1 THEN raw[(k + 1) \div 2][1] ELSE raw[k \div 2][2]]

\* G.add_weighted_edges_from(edge_names) over the interfaces ids, in order
add_weighted_edges_from(I, ids, raw, nodes) ==
    [edges |-> edges_by_node(Dedup(raw), Dedup(edge_endpoints(raw))),
     cost |-> [e \in Range(raw) |->
                  I[ids[CHOOSE k \in 1..Len(raw) :
                           raw[k] = e /\ \A m \in 1..Len(raw) : raw[m] = e => m <= k]].cost],
     nodes |-> Range(edge_endpoints(raw)) \cup nodes]

\* the (node, remote node) pair of each of the interfaces ids
edge_names(I, ids) == [k \in 1..Len(ids) |-> <<I[ids[k]].node, I[ids[k]].remote>>]

weighted_graph_over(I, ids, nodes) == add_weighted_edges_from(I, ids, edge_names(I, ids), nodes)

_make_weighted_network_graph(I, nodes, include_failed_circuits, needed_bw, rsvp_required) ==
    weighted_graph_over(I,
        SetToSeq({i \in DOMAIN I :
                     /\ (include_failed_circuits \/ I[i].failed = FALSE)
                     /\ reservable_bandwidth(I[i]) >= needed_bw
                     /\ (rsvp_required => I[i].rsvp_enabled)}),
        nodes)

has_edge(G, u, v) == \E k \in 1..Len(G.edges) : G.edges[k] = <<u, v>>

\* ------------------------------------------------------------ the validator
RECURSIVE PairUp(_, _, _, _, _)
PairUp(I, edges, in_ckt, circuit_id_number, circuits) ==
    IF edges = <<>> THEN [ints |-> I, circuits |-> circuits]
    ELSE LET e == Head(edges)
             int1 == get_interface_object_from_nodes(I, e[1], e[2])
             int2 == get_interface_object_from_nodes(I, e[2], e[1])
         IN  IF int1 \notin in_ckt /\ int2 \notin in_ckt
             THEN PairUp([i \in DOMAIN I |->
                             IF i \in {int1, int2}
                             THEN [I[i] EXCEPT !.circuit_id = circuit_id_number]
                             ELSE I[i]],
                         Tail(edges), in_ckt \cup {int1, int2},
                         circuit_id_number + 1, circuits \cup {<<int1, int2>>})
             ELSE PairUp(I, Tail(edges), in_ckt, circuit_id_number, circuits)

\* _make_circuits(return_exception=True): renumbers the circuit_ids of the
\* interfaces it pairs; raises before circuit_objects is replaced when an
\* interface has no interface in the reverse direction
\* _make_circuits that ignores the interfaces it could not pair
circuits_or_exception_ignored(r, circuits, exception_interfaces) ==
    [ints |-> r.ints, circuits |-> r.circuits, exc |-> "none", data |-> <<>>]

\* the end of _make_circuits: r holds what the loop over the edges paired,
\* exception_interfaces the edges without a reverse edge
circuits_or_exception(r, circuits, exception_interfaces) ==
    IF exception_interfaces # <<>>
    THEN [ints |-> r.ints, circuits |-> circuits, exc |-> "ModelException",
          data |-> exception_interfaces]
    ELSE [ints |-> r.ints, circuits |-> r.circuits, exc |-> "none", data |-> <<>>]

\* the loop of _make_circuits over the edges of the graph G
circuits_of_graph(I, circuits, G) ==
    circuits_or_exception(
        PairUp(I, SelectSeq(G.edges, LAMBDA e : has_edge(G, e[2], e[1])), {}, 1, {}),
        circuits,
        SelectSeq(G.edges, LAMBDA e : ~has_edge(G, e[2], e[1])))

_make_circuits(I, circuits) ==
    circuits_of_graph(I, circuits, _make_weighted_network_graph(I, node_objects, TRUE, 0, FALSE))

\* the number of the paths that cross interface i
times_on_paths(i, paths) == Cardinality({k \in 1..Len(paths) : i \in Range(paths[k])})

RECURSIVE SumOver(_, _)
SumOver(S, f) ==
    IF S = {} THEN 0
    ELSE LET x == CHOOSE y \in S : TRUE IN f[x] + SumOver(S \ {x}, f)

\* _make_int_info_dict: the bandwidth the routed LSPs reserve on interface i
int_info_reserved(i, lp, lr, dp) ==
    SumOver({l \in DOMAIN lp : lp[l].routed /\ i \in Range(lp[l].interfaces)}, lr)
    + SumOver(DOMAIN dp, [d \in DOMAIN dp |-> dp[d].share * times_on_paths(i, dp[d].paths)])

int_res_bw_too_high(I) ==
    {i \in DOMAIN I : I[i].reserved_bandwidth >
                        (I[i].capacity * I[i].percent_reservable_bandwidth) \div 100}

int_res_bw_sum_error(I, lp, lr, dp) ==
    {i \in DOMAIN I : I[i].reserved_bandwidth # int_info_reserved(i, lp, lr, dp)}

_unique_interface_per_node(I) ==
    \A i, j \in DOMAIN I : _key(I[i]) = _key(I[j]) => i = j

circuits_with_mismatched_interface_capacity(I, circuits) ==
    {c \in circuits : I[c[1]].capacity # I[c[2]].capacity}

multiple_links_between_nodes(I) ==
    LET ids == SetToSeq(DOMAIN I)
        connected_nodes_list == [k \in 1..Len(ids) |->
                                    I[ids[k]].node \o "-" \o I[ids[k]].remote]
    IN  IF Len(connected_nodes_list) # Cardinality(Range(connected_nodes_list))
        THEN SelectSeq(connected_nodes_list,
                 LAMBDA c : Cardinality({k \in 1..Len(ids) : connected_nodes_list[k] = c}) > 1)
        ELSE <<>>

\* SRLG.node_objects of an SRLG made by add_srlg: SRLG(srlg_name, self)
\* leaves node_objects at the default of __init__, one set object shared by
\* every SRLG made that way
srlg_node_objects(s) == srlg_default_nodes

\* the keys of the dict validate_srlg_nodes returns
validate_srlg_nodes ==
    {n \in Nodes : \E s \in srlg_objects : n \in srlg_node_objects(s) /\ s \notin node_srlgs[n]}

\* nodes_in_srlg_but_srlg_not_in_node_srlgs of one pass of the loop
nodes_in_srlg_but_srlg_not_in_node_srlgs(srlg) ==
    {node \in srlg_node_objects(srlg) : srlg \notin node_srlgs[node]}

\* the inner loop of validate_srlg_nodes for one SRLG: append the name, or
\* on KeyError bind the node to an empty list
srlg_errors_of(srlg_errors, srlg, nodes) ==
    [node \in DOMAIN srlg_errors \cup nodes |->
        IF node \notin nodes THEN srlg_errors[node]
        ELSE IF node \in DOMAIN srlg_errors THEN Append(srlg_errors[node], srlg)
        ELSE <<>>]

\* the dict validate_srlg_nodes returns when the set srlg_objects is
\* iterated in the order given
RECURSIVE srlg_errors_dict(_, _)
srlg_errors_dict(order, srlg_errors) ==
    IF order = <<>> THEN srlg_errors
    ELSE srlg_errors_dict(Tail(order),
             srlg_errors_of(srlg_errors, Head(order),
                            nodes_in_srlg_but_srlg_not_in_node_srlgs(Head(order))))

\* the keys of the entries validate_model appends to error_data
error_data(J, circuits, lp, lr, dp) ==
    (IF int_res_bw_too_high(J) # {} THEN {"int_res_bw_too_high"} ELSE {})
    \cup (IF int_res_bw_sum_error(J, lp, lr, dp) # {} THEN {"int_res_bw_sum_error"} ELSE {})
    \cup (IF ~_unique_interface_per_node(J) THEN {"duplicate_interfaces"} ELSE {})
    \cup (IF circuits_with_mismatched_interface_capacity(J, circuits) # {}
          THEN {"circuits_with_mismatched_interface_capacity"} ELSE {})
    \cup (IF Len(multiple_links_between_nodes(J)) > 0
          THEN {"multiple_links_between_nodes"} ELSE {})
    \cup (IF validate_srlg_nodes # {} THEN {"srlg_errors"} ELSE {})

\* the end of validate_model: it raises when error_data has an entry
raise_on_error_data(mc, errors) ==
    [ints |-> mc.ints, circuits |-> mc.circuits, error_data |-> errors,
     exc |-> IF errors # {} THEN "ModelException" ELSE "none",
     message |-> IF errors # {} THEN "network interface validation failed, see returned data"
                 ELSE "",
     data |-> <<>>]

\* validate_model after its call of _make_circuits, which returned mc
validate_circuits(mc, lp, lr, dp) ==
    IF mc.exc # "none"
    THEN [ints |-> mc.ints, circuits |-> mc.circuits, error_data |-> {}, exc |-> mc.exc,
          message |-> "WARNING: These interfaces were not matched into a circuit",
          data |-> mc.data]
    ELSE raise_on_error_data(mc, error_data(mc.ints, mc.circuits, lp, lr, dp))

\* validate_model: the interface attributes and circuit set it leaves, the
\* entries of error_data and whether it raises
validate_model(I, circuits, lp, lr, dp) ==
    validate_circuits(_make_circuits(I, circuits), lp, lr, dp)

\* ------------------------------------------------ failure and recovery
\* The handlers below work on a record S: the interface attributes (ints),
\* the nodes' failed flags (nf), circuit_objects (circuits) and the exception
\* that ended the call (exc, "none" while it runs).
Running(I, nf, circuits) == [ints |-> I, nf |-> nf, circuits |-> circuits, exc |-> "none"]

Raise(S, e) == [S EXCEPT !.exc = e]

\* self.validate_model() inside a handler: v is what validate_model left
validated(S, v) == [ints |-> v.ints, nf |-> S.nf, circuits |-> v.circuits, exc |-> v.exc]

\* fail_interface that forgets the remote interface
fail_interface_local_only(S, interface_name, node_name) ==
    LET interface_object == get_interface_object(S.ints, interface_name, node_name)
        remote_interface_object == get_remote_interface(S.ints, interface_object)
    IN  IF interface_object = 0 THEN Raise(S, "ModelException")
        ELSE IF remote_interface_object = 0 THEN Raise(S, "ModelException")
        ELSE [S EXCEPT !.ints = [i \in DOMAIN S.ints |->
                  IF i = interface_object
                  THEN [S.ints[i] EXCEPT !.failed = TRUE]
                  ELSE S.ints[i]]]

\* fail_interface that also fails the owning node
fail_interface_and_node(S, interface_name, node_name) ==
    LET interface_object == get_interface_object(S.ints, interface_name, node_name)
        remote_interface_object == get_remote_interface(S.ints, interface_object)
    IN  IF interface_object = 0 THEN Raise(S, "ModelException")
        ELSE IF remote_interface_object = 0 THEN Raise(S, "ModelException")
        ELSE [S EXCEPT !.ints = [i \in DOMAIN S.ints |->
                  IF i \in {remote_interface_object, interface_object}
                  THEN [S.ints[i] EXCEPT !.failed = TRUE]
                  ELSE S.ints[i]],
                       !.nf[node_name] = TRUE]

\* fail_interface that also clears the traffic of the two interfaces
fail_interface_clear_traffic(S, interface_name, node_name) ==
    LET interface_object == get_interface_object(S.ints, interface_name, node_name)
        remote_interface_object == get_remote_interface(S.ints, interface_object)
    IN  IF interface_object = 0 THEN Raise(S, "ModelException")
        ELSE IF remote_interface_object = 0 THEN Raise(S, "ModelException")
        ELSE [S EXCEPT !.ints = [i \in DOMAIN S.ints |->
                  IF i \in {remote_interface_object, interface_object}
                  THEN [S.ints[i] EXCEPT !.failed = TRUE, !.traffic = 0]
                  ELSE S.ints[i]]]

fail_interface(S, interface_name, node_name) ==
    LET interface_object == get_interface_object(S.ints, interface_name, node_name)
        remote_interface_object == get_remote_interface(S.ints, interface_object)
    IN  IF interface_object = 0 THEN Raise(S, "ModelException")
        ELSE IF remote_interface_object = 0 THEN Raise(S, "ModelException")
        ELSE [S EXCEPT !.ints = [i \in DOMAIN S.ints |->
                  IF i \in {remote_interface_object, interface_object}
                  THEN [S.ints[i] EXCEPT !.failed = TRUE]
                  ELSE S.ints[i]]]

\* unfail_interface that checks the owning node only
unfail_interface_local_check(S, interface_name, node_name, raise_exception) ==
    LET interface_object == get_interface_object(S.ints, interface_name, node_name)
        remote_interface == get_remote_interface(S.ints, interface_object)
    IN  IF interface_object = 0 THEN Raise(S, "ModelException")
        ELSE IF remote_interface = 0 THEN Raise(S, "ModelException")
        ELSE IF S.nf[S.ints[interface_object].node] = FALSE
        THEN LET J == [i \in DOMAIN S.ints |->
                          IF i \in {remote_interface, interface_object}
                          THEN [S.ints[i] EXCEPT !.failed = FALSE, !.reserved_bandwidth = 0]
                          ELSE S.ints[i]]
             IN  validated(S, validate_model(J, S.circuits, lsp_path, lsp_reserved, demand_path))
        ELSE IF raise_exception THEN Raise(S, "ModelException") ELSE S

\* unfail_interface that keeps the reserved_bandwidth of the interface
unfail_interface_keep_reserved(S, interface_name, node_name, raise_exception) ==
    LET interface_object == get_interface_object(S.ints, interface_name, node_name)
        remote_interface == get_remote_interface(S.ints, interface_object)
    IN  IF interface_object = 0 THEN Raise(S, "ModelException")
        ELSE IF remote_interface = 0 THEN Raise(S, "ModelException")
        ELSE IF S.nf[S.ints[interface_object].node] = FALSE
                /\ S.nf[S.ints[remote_interface].node] = FALSE
        THEN LET J == [i \in DOMAIN S.ints |->
                          IF i = remote_interface
                          THEN [S.ints[i] EXCEPT !.failed = FALSE, !.reserved_bandwidth = 0]
                          ELSE IF i = interface_object
                          THEN [S.ints[i] EXCEPT !.failed = FALSE]
                          ELSE S.ints[i]]
             IN  validated(S, validate_model(J, S.circuits, lsp_path, lsp_reserved, demand_path))
        ELSE IF raise_exception THEN Raise(S, "ModelException") ELSE S

\* unfail_interface that forgets the remote interface
unfail_interface_local_only(S, interface_name, node_name, raise_exception) ==
    LET interface_object == get_interface_object(S.ints, interface_name, node_name)
        remote_interface == get_remote_interface(S.ints, interface_object)
    IN  IF interface_object = 0 THEN Raise(S, "ModelException")
        ELSE IF remote_interface = 0 THEN Raise(S, "ModelException")
        ELSE IF S.nf[S.ints[interface_object].node] = FALSE
                /\ S.nf[S.ints[remote_interface].node] = FALSE
        THEN LET J == [i \in DOMAIN S.ints |->
                          IF i = interface_object
                          THEN [S.ints[i] EXCEPT !.failed = FALSE, !.reserved_bandwidth = 0]
                          ELSE S.ints[i]]
             IN  validated(S, validate_model(J, S.circuits, lsp_path, lsp_reserved, demand_path))
        ELSE IF raise_exception THEN Raise(S, "ModelException") ELSE S

unfail_interface(S, interface_name, node_name, raise_exception) ==
    LET interface_object == get_interface_object(S.ints, interface_name, node_name)
        remote_interface == get_remote_interface(S.ints, interface_object)
    IN  IF interface_object = 0 THEN Raise(S, "ModelException")
        ELSE IF remote_interface = 0 THEN Raise(S, "ModelException")
        ELSE IF S.nf[S.ints[interface_object].node] = FALSE
                /\ S.nf[S.ints[remote_interface].node] = FALSE
        THEN LET J == [i \in DOMAIN S.ints |->
                          IF i \in {remote_interface, interface_object}
                          THEN [S.ints[i] EXCEPT !.failed = FALSE, !.reserved_bandwidth = 0]
                          ELSE S.ints[i]]
             IN  validated(S, validate_model(J, S.circuits, lsp_path, lsp_reserved, demand_path))
        ELSE IF raise_exception THEN Raise(S, "ModelException") ELSE S

\* the loop of fail_node over the interfaces of the node
RECURSIVE fail_each(_, _, _)
fail_each(S, ids, node_name) ==
    IF ids = <<>> \/ S.exc # "none" THEN S
    ELSE fail_each(fail_interface(S, S.ints[Head(ids)].name, node_name), Tail(ids), node_name)

\* fail_node that fails the node and leaves its interfaces alone
fail_node_flag_only(S, node_name) ==
    IF node_name \notin node_objects THEN Raise(S, "ModelException")
    ELSE [S EXCEPT !.nf[node_name] = TRUE]

\* the end of fail_node: R is what the loop over the interfaces left
set_node_failed(R, node_name) ==
    IF R.exc # "none" THEN R
    ELSE IF node_name \notin node_objects THEN Raise(R, "ModelException")
    ELSE [R EXCEPT !.nf[node_name] = TRUE]

fail_node(S, node_name) ==
    set_node_failed(fail_each(S, SetToSeq(node_interfaces(S.ints, node_name)), node_name),
                    node_name)

\* Node.failed = False: the node stays failed while an SRLG it lists in
\* node.srlgs is failed
set_node_unfailed(nf, node_name) ==
    [nf EXCEPT ![node_name] = \E s \in node_srlgs[node_name] : srlg_failed[s]]

\* the loop of unfail_node over the interfaces of the node
\* the second unfail_interface of the loop body: the remote interface of
\* `interface`, S1 being what the first unfail_interface left
unfail_remote_int(S1, remote_int) ==
    IF S1.exc # "none" THEN S1
    ELSE IF remote_int = 0 THEN Raise(S1, "ModelException")
    ELSE unfail_interface(S1, S1.ints[remote_int].name, S1.ints[remote_int].node, FALSE)

unfail_both(S1, interface) == unfail_remote_int(S1, get_remote_interface(S1.ints, interface))

RECURSIVE unfail_each(_, _, _)
unfail_each(S, ids, node_name) ==
    IF ids = <<>> \/ S.exc # "none" THEN S
    ELSE IF ~S.nf[S.ints[Head(ids)].remote]
    THEN unfail_each(unfail_both(unfail_interface(S, S.ints[Head(ids)].name, node_name, FALSE),
                                 Head(ids)),
                     Tail(ids), node_name)
    ELSE unfail_each(S, Tail(ids), node_name)

\* unfail_node that leaves the node's own flag alone
unfail_node_keep_flag(S, node_name) ==
    IF node_name \notin node_objects THEN Raise(S, "ModelException")
    ELSE unfail_each(S, SetToSeq(node_interfaces(S.ints, node_name)), node_name)

unfail_node(S, node_name) ==
    IF node_name \notin node_objects THEN Raise(S, "ModelException")
    ELSE unfail_each([S EXCEPT !.nf = set_node_unfailed(S.nf, node_name)],
                     SetToSeq(node_interfaces(S.ints, node_name)), node_name)

\* fail_srlg: the member nodes are failed in the order `order`; the filter
\* of the interface loop reads srlg_to_fail.interface_objects, an attribute
\* the SRLG class of srlg.py does not have, so the loop raises
\* AttributeError on the first interface of the model
RECURSIVE fail_nodes(_, _)
fail_nodes(S, nodes) ==
    IF nodes = <<>> \/ S.exc # "none" THEN S
    ELSE fail_nodes(fail_node(S, Head(nodes)), Tail(nodes))

\* fail_srlg after its node loop, which left R
fail_srlg_interfaces(R, sf, srlg_name) ==
    IF R.exc # "none" THEN [S |-> R, sf |-> sf]
    ELSE IF DOMAIN R.ints # {} THEN [S |-> Raise(R, "AttributeError"), sf |-> sf]
    ELSE [S |-> R, sf |-> [sf EXCEPT ![srlg_name] = TRUE]]

fail_srlg(S, sf, srlg_name, order) ==
    IF srlg_name \notin srlg_objects
    THEN [S |-> Raise(S, "ModelException"), sf |-> sf]
    ELSE fail_srlg_interfaces(fail_nodes(S, order), sf, srlg_name)

\* the node loop of unfail_srlg: a ModelException of unfail_node is ignored
pass_on_model_exception(R) == IF R.exc = "ModelException" THEN Raise(R, "none") ELSE R

RECURSIVE unfail_nodes(_, _)
unfail_nodes(S, nodes) ==
    IF nodes = <<>> \/ S.exc # "none" THEN S
    ELSE unfail_nodes(pass_on_model_exception(unfail_node(S, Head(nodes))), Tail(nodes))

\* unfail_srlg after its node loop, which left R; sf1 has the SRLG unfailed
unfail_srlg_interfaces(R, sf1) ==
    IF R.exc # "none" THEN [S |-> R, sf |-> sf1]
    ELSE IF DOMAIN R.ints # {} THEN [S |-> Raise(R, "AttributeError"), sf |-> sf1]
    ELSE [S |-> R, sf |-> sf1]

unfail_srlg(S, sf, srlg_name, order) ==
    IF srlg_name \notin srlg_objects
    THEN [S |-> Raise(S, "ModelException"), sf |-> sf]
    ELSE unfail_srlg_interfaces(unfail_nodes(S, order), [sf EXCEPT ![srlg_name] = FALSE])

\* ------------------------------------------------------------ path finder
NodePaths(G, s, d) ==
    {p \in UNION {[1..n -> G.nodes] : n \in 1..Cardinality(G.nodes)} :
        /\ p[1] = s /\ p[Len(p)] = d
        /\ \A a, b \in 1..Len(p) : p[a] = p[b] => a = b
        /\ \A k \in 1..(Len(p) - 1) : has_edge(G, p[k], p[k + 1])}

RECURSIVE PathCost(_, _)
PathCost(G, p) ==
    IF Len(p) < 2 THEN 0 ELSE G.cost[<<p[1], p[2]>>] + PathCost(G, Tail(p))

_convert_nx_path_to_model_path(I, p) ==
    [k \in 1..(Len(p) - 1) |-> get_interface_object_from_nodes(I, p[k], p[k + 1])]

\* the node paths of least cost among the node paths all
\* every node path, whatever its cost
least_cost_ignored(G, all) == all

least_cost(G, all) == {p \in all : \A q \in all : PathCost(G, p) <= PathCost(G, q)}

model_paths(I, G, best) ==
    [path |-> {_convert_nx_path_to_model_path(I, p) : p \in best},
     cost |-> IF best = {} THEN -1 ELSE PathCost(G, CHOOSE p \in best : TRUE)]

\* all_shortest_paths over the graph G, as model paths, and their cost
shortest_paths(I, G, s, d) ==
    model_paths(I, G,
        least_cost(G, IF s \in G.nodes /\ d \in G.nodes THEN NodePaths(G, s, d) ELSE {}))

\* get_shortest_path over a graph that keeps the failed interfaces
get_shortest_path_with_failed(I, s, d, needed_bw) ==
    shortest_paths(I, _make_weighted_network_graph(I, node_objects, TRUE, needed_bw, FALSE), s, d)

\* get_shortest_path; cost -1 stands for None
get_shortest_path(I, s, d, needed_bw) ==
    shortest_paths(I, _make_weighted_network_graph(I, node_objects, FALSE, needed_bw, FALSE), s, d)

\* nx.all_simple_paths over the graph G with cutoff: the node paths without
\* a repeated node of at most cutoff edges, as model paths. For s = d the
\* result depends on the networkx release: no path, or the one path [s],
\* whose model path is empty.
all_simple_paths(I, G, s, d, cutoff) ==
    IF s = d
    THEN {{}, {<<>>}}
    ELSE {{_convert_nx_path_to_model_path(I, p) :
              p \in {q \in NodePaths(G, s, d) : Len(q) - 1 <= cutoff}}}

\* get_all_paths_reservable_bw for node names of the model: the 'path'
\* lists it can return
get_all_paths_reservable_bw(I, s, d, include_failed_circuits, cutoff, needed_bw) ==
    all_simple_paths(I,
        _make_weighted_network_graph(I, node_objects, include_failed_circuits, needed_bw, FALSE),
        s, d, cutoff)

\* _make_weighted_network_graph_routed_lsp that does not add the LSP's
\* reserved bandwidth back
_make_weighted_network_graph_routed_lsp_no_credit(I, nodes, lsp_path_interfaces, lsp_reserved_bandwidth, needed_bw) ==
    weighted_graph_over(I,
        SetToSeq({i \in DOMAIN I :
                     /\ I[i].failed = FALSE /\ I[i].rsvp_enabled = TRUE
                     /\ reservable_bandwidth(I[i]) >= needed_bw}),
        nodes)

\* _make_weighted_network_graph_routed_lsp(lsp, needed_bw): lsp.path['interfaces']
\* and lsp.reserved_bandwidth are passed in
_make_weighted_network_graph_routed_lsp(I, nodes, lsp_path_interfaces, lsp_reserved_bandwidth, needed_bw) ==
    weighted_graph_over(I,
        SetToSeq({i \in DOMAIN I :
                     /\ I[i].failed = FALSE /\ I[i].rsvp_enabled = TRUE
                     /\ (IF i \in Range(lsp_path_interfaces)
                         THEN reservable_bandwidth(I[i]) + lsp_reserved_bandwidth
                         ELSE reservable_bandwidth(I[i])) >= needed_bw}),
        nodes)

\* get_shortest_path_for_routed_lsp: the graph it builds and what it returns
get_shortest_path_for_routed_lsp(I, G, s, d) ==
    [G |-> G, sp |-> shortest_paths(I, G, s, d)]

\* ----------------------------------------------------- the simulation pass
\* the LSPs of the model with this source and destination
parallel_lsp_group(source, dest) ==
    {l \in DOMAIN rsvp_lsp_objects : l[1] = source /\ l[2] = dest}

\* the magnitude of the demands of the model with this source and destination
demand_magnitude(source, dest) ==
    SumOver({d \in DOMAIN demand_objects : d[1] = source /\ d[2] = dest},
            [d \in DOMAIN demand_objects |-> demand_objects[d].traffic])

\* the bandwidth LSP l asks for: its configured_setup_bandwidth, else the
\* demand magnitude of its parallel group split evenly over the group
lsp_request(l) ==
    RSVP_LSP(l[1], l[2],
             IF rsvp_lsp_objects[l].setup_bandwidth # -1
             THEN rsvp_lsp_objects[l].setup_bandwidth
             ELSE demand_magnitude(l[1], l[2]) \div Cardinality(parallel_lsp_group(l[1], l[2])))

\* _route_lsps: every LSP in turn asks for its setup bandwidth on the
\* shortest path over the rsvp_enabled interfaces of the non-failed model
\* that can still reserve it, takes the first such path and reserves
\* the candidate paths of LSP l over the non-failed interfaces N
lsp_candidate_paths(N, non_failed, o) ==
    shortest_paths(N,
        _make_weighted_network_graph(N,
            {N[i].node : i \in non_failed} \cup {N[i].remote : i \in non_failed},
            FALSE, o.setup_bandwidth, TRUE),
        o.source, o.dest)

\* LSP l takes path p of cost `cost` and reserves its setup bandwidth on it
reserve_on_path(I, acc, l, o, p, cost) ==
    [ints |-> [i \in DOMAIN I |->
                  IF i \in Range(p)
                  THEN [I[i] EXCEPT !.reserved_bandwidth = @ + o.setup_bandwidth]
                  ELSE I[i]],
     lp |-> [acc.lp EXCEPT ![l] = [routed |-> TRUE, interfaces |-> p, cost |-> cost]],
     lr |-> [acc.lr EXCEPT ![l] = o.setup_bandwidth]]

\* LSP l is routed on the first of the candidate paths sp, or left unrouted
route_lsp(I, acc, l, o, sp) ==
    IF sp.path = {}
    THEN [ints |-> I, lp |-> [acc.lp EXCEPT ![l] = Unrouted], lr |-> [acc.lr EXCEPT ![l] = 0]]
    ELSE reserve_on_path(I, acc, l, o, CHOOSE q \in sp.path : TRUE, sp.cost)

RECURSIVE route_each(_, _, _)
route_each(r, non_failed, lsps) ==
    IF lsps = <<>> THEN r
    ELSE route_each(route_lsp(r.ints, r, Head(lsps), lsp_request(Head(lsps)),
                              lsp_candidate_paths([i \in non_failed |-> r.ints[i]], non_failed,
                                                  lsp_request(Head(lsps)))),
                    non_failed, Tail(lsps))

_route_lsps(I, non_failed, lsps, acc) ==
    route_each([ints |-> I, lp |-> acc.lp, lr |-> acc.lr], non_failed, lsps)

\* ---- _route_demands
\* the routed LSPs of the parallel LSP group of demand d, in iteration order
demand_lsps(lp, d) ==
    SelectSeq(LspSeq, LAMBDA l : /\ l \in parallel_lsp_group(d[1], d[2])
                                 /\ lp[l].routed)

RECURSIVE PathSeq(_)
PathSeq(S) ==
    IF S = {} THEN <<>>
    ELSE LET p == CHOOSE q \in S : TRUE IN <<p>> \o PathSeq(S \ {p})

\* the paths demand d is split over: the paths of the routed LSPs of its
\* group, else the shortest paths over the non-failed interfaces N that can
\* still reserve its magnitude
demand_candidate_paths(N, non_failed, lp, d, lsps) ==
    IF lsps # <<>>
    THEN [k \in 1..Len(lsps) |-> lp[lsps[k]].interfaces]
    ELSE PathSeq(shortest_paths(N,
                     _make_weighted_network_graph(N,
                         {N[i].node : i \in non_failed} \cup {N[i].remote : i \in non_failed},
                         FALSE, demand_objects[d].traffic, FALSE),
                     d[1], d[2]).path)

\* demand d puts `share` on every one of its paths: reserved_bandwidth and
\* traffic of each interface grow by the share once per path that crosses it
place_demand(r, d, paths, share) ==
    IF paths = <<>> THEN [r EXCEPT !.dp[d] = UnroutedDemand]
    ELSE [r EXCEPT !.ints = [i \in DOMAIN r.ints |->
                                [r.ints[i] EXCEPT
                                    !.reserved_bandwidth = @ + share * times_on_paths(i, paths),
                                    !.traffic = @ + share * times_on_paths(i, paths)]],
                   !.dp[d] = [routed |-> TRUE, paths |-> paths, share |-> share]]

route_demand(r, d, paths) ==
    place_demand(r, d, paths,
                 IF paths = <<>> THEN 0 ELSE demand_objects[d].traffic \div Len(paths))

RECURSIVE _route_demands(_, _, _)
_route_demands(r, non_failed, demands) ==
    IF demands = <<>> THEN r
    ELSE _route_demands(
             route_demand(r, Head(demands),
                 demand_candidate_paths([i \in non_failed |-> r.ints[i]], non_failed, r.lp,
                                        Head(demands), demand_lsps(r.lp, Head(demands)))),
             non_failed, Tail(demands))

\* what _route_lsps left, with every Demand.path at 'Unrouted'
with_unrouted_demands(r) ==
    [ints |-> r.ints, lp |-> r.lp, lr |-> r.lr, dp |-> [d \in DemandNames |-> UnroutedDemand]]

\* update_simulation that returns without validating the model
validate_routed_unchecked(S, r) ==
    [S |-> [S EXCEPT !.ints = r.ints], lp |-> r.lp, lr |-> r.lr, dp |-> r.dp]

\* the end of update_simulation: self.validate_model() over what
\* _route_lsps and _route_demands left
validate_routed(S, r) ==
    [S |-> validated(S, validate_model(r.ints, S.circuits, r.lp, r.lr, r.dp)),
     lp |-> r.lp, lr |-> r.lr, dp |-> r.dp]

\* update_simulation that routes the LSPs only
route_and_validate_lsps_only(S, I0, non_failed_interfaces) ==
    validate_routed(S,
        with_unrouted_demands(
            _route_lsps(I0, non_failed_interfaces,
                        SelectSeq(LspSeq, LAMBDA l : l \in DOMAIN rsvp_lsp_objects),
                        [lp |-> [l \in LspNames |-> Unrouted], lr |-> lsp_reserved])))

\* update_simulation over the interfaces I0, reserved_bandwidth and traffic
\* reset, of which non_failed_interfaces can route traffic
route_and_validate(S, I0, non_failed_interfaces) ==
    validate_routed(S,
        _route_demands(
            with_unrouted_demands(
                _route_lsps(I0, non_failed_interfaces,
                            SelectSeq(LspSeq, LAMBDA l : l \in DOMAIN rsvp_lsp_objects),
                            [lp |-> [l \in LspNames |-> Unrouted], lr |-> lsp_reserved])),
            non_failed_interfaces,
            SelectSeq(DemandSeq, LAMBDA d : d \in DOMAIN demand_objects)))

\* update_simulation that forgets to reset reserved_bandwidth and traffic
update_simulation_no_reset(S) ==
    route_and_validate(S, S.ints, {i \in DOMAIN S.ints : S.ints[i].failed # TRUE})

\* update_simulation that resets the non-failed interfaces only
update_simulation_partial_reset(S) ==
    route_and_validate(S,
        [i \in DOMAIN S.ints |->
            IF S.ints[i].failed # TRUE
            THEN [S.ints[i] EXCEPT !.reserved_bandwidth = 0, !.traffic = 0]
            ELSE S.ints[i]],
        {i \in DOMAIN S.ints : S.ints[i].failed # TRUE})

update_simulation(S) ==
    route_and_validate(S,
        [i \in DOMAIN S.ints |-> [S.ints[i] EXCEPT !.reserved_bandwidth = 0, !.traffic = 0]],
        {i \in DOMAIN S.ints : S.ints[i].failed # TRUE})

\* ------------------------------------------------------------ add_circuit
all_interface_circuit_ids(I) == {I[i].circuit_id : i \in DOMAIN I}

Max(S) == CHOOSE x \in S : \A y \in S : y <= x

\* add_circuit without the check of the interface keys
add_circuit_unchecked(S, node_a, node_b, node_a_interface_name, node_b_interface_name, cost_intf_a, cost_intf_b, capacity, failed, ida, idb) ==
    LET circuit_ids == all_interface_circuit_ids(S.ints)
        circuit_id == IF circuit_ids = {} THEN 1 ELSE Max(circuit_ids) + 1
        int_a == Interface(node_a_interface_name, cost_intf_a, capacity, node_a, node_b, circuit_id)
        int_b == Interface(node_b_interface_name, cost_intf_b, capacity, node_b, node_a, circuit_id)
        J == [i \in DOMAIN S.ints \cup {ida, idb} |->
                 IF i = ida THEN int_a ELSE IF i = idb THEN int_b ELSE S.ints[i]]
    IN  validated(S, validate_model(J, S.circuits, lsp_path, lsp_reserved, demand_path))

\* ida, idb: the identities of the two new Interface objects
add_circuit(S, node_a, node_b, node_a_interface_name, node_b_interface_name, cost_intf_a, cost_intf_b, capacity, failed, ida, idb) ==
    LET circuit_ids == all_interface_circuit_ids(S.ints)
        circuit_id == IF circuit_ids = {} THEN 1 ELSE Max(circuit_ids) + 1
        int_a == Interface(node_a_interface_name, cost_intf_a, capacity, node_a, node_b, circuit_id)
        int_b == Interface(node_b_interface_name, cost_intf_b, capacity, node_b, node_a, circuit_id)
        existing_int_keys == {_key(S.ints[i]) : i \in DOMAIN S.ints}
    IN  IF _key(int_a) \in existing_int_keys \/ _key(int_b) \in existing_int_keys
        THEN Raise(S, "ModelException")
        ELSE LET J == [i \in DOMAIN S.ints \cup {ida, idb} |->
                          IF i = ida THEN int_a ELSE IF i = idb THEN int_b ELSE S.ints[i]]
             IN  validated(S, validate_model(J, S.circuits, lsp_path, lsp_reserved, demand_path))

\* add_node: r holds the model (S) and its node names (nodes)
add_node(S, nodes, node_name) ==
    IF node_name \in nodes
    THEN [S |-> Raise(S, "ModelException"), nodes |-> nodes]
    ELSE [S |-> validated(S, validate_model(S.ints, S.circuits, lsp_path, lsp_reserved,
                                            demand_path)),
          nodes |-> nodes \cup {node_name}]

\* add_rsvp_lsp: r holds the model (S) and its LSPs (lsps); the new LSP has
\* no configured_setup_bandwidth
add_rsvp_lsp(S, lsps, source_node_name, dest_node_name, name) ==
    IF get_node_object(source_node_name).exc # "none"
       \/ get_node_object(dest_node_name).exc # "none"
    THEN [S |-> Raise(S, "ModelException"), lsps |-> lsps]
    ELSE IF <<source_node_name, dest_node_name, name>> \in DOMAIN lsps
    THEN [S |-> Raise(S, "ModelException"), lsps |-> lsps]
    ELSE [S |-> validated(S, validate_model(S.ints, S.circuits, lsp_path, lsp_reserved,
                                            demand_path)),
          lsps |-> lsps @@ (<<source_node_name, dest_node_name, name>> :>
                                RSVP_LSP(source_node_name, dest_node_name, -1))]

\* change_interface_name: the interface named current_interface_name on the
\* node takes the new name; nothing else is looked at
change_interface_name(S, node_name, current_interface_name, new_interface_name) ==
    IF get_interface_object(S.ints, current_interface_name, node_name) = 0
    THEN Raise(S, "ModelException")
    ELSE [S EXCEPT !.ints[get_interface_object(S.ints, current_interface_name, node_name)].name =
                       new_interface_name]

\* ------------------------------------------------------------------ SRLGs
\* add_srlg: SRLG(srlg_name, self) binds the model to circuit_objects and
\* leaves node_objects at the shared default set
add_srlg(srlgs, srlg_name) ==
    IF srlg_name \in srlgs
    THEN [srlgs |-> srlgs, exc |-> "ModelException"]
    ELSE [srlgs |-> srlgs \cup {srlg_name}, exc |-> "none"]

\* Node.add_to_srlg: the node joins the SRLG's node set and lists the SRLG
add_to_srlg(node_name, srlg_name) ==
    [node_objects |-> srlg_node_objects(srlg_name) \cup {node_name},
     srlgs |-> [node_srlgs EXCEPT ![node_name] = @ \cup {srlg_name}]]

\* ----------------------------------------------- the causes of a failure
NoCauses == [interface |-> {}, node |-> {}, srlg |-> {}]

\* the other interface of the circuit of interface i
Partner(i) ==
    CHOOSE j \in DOMAIN interface_objects :
        <<i, j>> \in circuit_objects \/ <<j, i>> \in circuit_objects

\* a fail call that returns adds its cause, the matching unfail call removes it
Track(kind, members, fails, exc) ==
    /\ tracking' = tracking
    /\ causes' = IF ~tracking THEN causes
                 ELSE IF ~fails THEN [causes EXCEPT ![kind] = @ \ members]
                 ELSE IF exc = "none" THEN [causes EXCEPT ![kind] = @ \cup members]
                 ELSE causes

\* ---------------------------------------------------------- initial state
InitInterfaces ==
    (2 :> Interface("A-to-B", 1, 100, "A", "B", 1)) @@
    (3 :> Interface("B-to-A", 1, 100, "B", "A", 1)) @@
    (4 :> Interface("B-to-C", 1, 100, "B", "C", 2)) @@
    (5 :> Interface("C-to-B", 1, 100, "C", "B", 2))

\* the model after its first validate_model, which left v
Loaded(v) ==
    /\ v.exc = "none"
    /\ interface_objects = v.ints
    /\ circuit_objects = v.circuits

\* the one LSP of the model, with a configured_setup_bandwidth
InitLsps == (<<"A", "C", "lsp_a_c">> :> RSVP_LSP("A", "C", 50))

\* Model(interface_objects, node_objects, demand_objects, rsvp_lsp_objects):
\* a new model, nothing failed, nothing routed, no call made yet
NewModel(nodes, lsps, demands) ==
    /\ node_objects = nodes
    /\ node_failed = [n \in AllNodes |-> FALSE]
    /\ node_srlgs = [n \in AllNodes |-> {}]
    /\ srlg_objects = {}
    /\ srlg_failed = [s \in SrlgNames |-> FALSE]
    /\ srlg_default_nodes = {}
    /\ rsvp_lsp_objects = lsps
    /\ demand_objects = demands
    /\ lsp_path = [l \in LspNames |-> Unrouted]
    /\ lsp_reserved = [l \in LspNames |-> 0]
    /\ demand_path = [d \in DemandNames |-> UnroutedDemand]
    /\ ret = NoRet
    /\ n_add_circuit = 0
    /\ last = NoCall
    /\ saved = <<>>
    /\ causes = NoCauses

InitModel ==
    /\ NewModel(Nodes, InitLsps, <<>>)
    /\ Loaded(validate_model(InitInterfaces, {}, lsp_path, lsp_reserved, demand_path))

Init == InitModel /\ tracking = FALSE

\* ---- the models of the simulation runs: the line A - B - C; one or two
\* LSPs from A to C, or none; a demand from A to C, or none
SimCapacities == {100, 200}

LineInterfaces(capacity) ==
    (2 :> Interface("A-to-B", 1, capacity, "A", "B", 1)) @@
    (3 :> Interface("B-to-A", 1, capacity, "B", "A", 1)) @@
    (4 :> Interface("B-to-C", 1, capacity, "B", "C", 2)) @@
    (5 :> Interface("C-to-B", 1, capacity, "C", "B", 2))

SimInterfaces == {LineInterfaces(c) : c \in SimCapacities}

TwoLsps == InitLsps @@ (<<"A", "C", "lsp_a_c_2">> :> RSVP_LSP("A", "C", 50))

\* two LSPs of which the second asks for more than a capacity of 100 leaves
UnevenLsps == InitLsps @@ (<<"A", "C", "lsp_a_c_2">> :> RSVP_LSP("A", "C", 150))

SimLsps == {<<>>, InitLsps, TwoLsps, UnevenLsps}

SimDemands == {<<>>, (<<"A", "C", "dmd_a_c">> :> Demand("A", "C", 80))}

InitSim ==
    /\ \E lsps \in SimLsps, demands \in SimDemands : NewModel(Nodes, lsps, demands)
    /\ \E I \in SimInterfaces :
           Loaded(validate_model(I, {}, lsp_path, lsp_reserved, demand_path))
    /\ tracking = FALSE

InitCauses == InitModel /\ tracking = TRUE

\* ---------------------------------------------------------------- actions
Cur == Running(interface_objects, node_failed, circuit_objects)

Apply(S) ==
    /\ interface_objects' = S.ints
    /\ node_failed' = S.nf
    /\ circuit_objects' = S.circuits

\* the call op ended with S: the model takes what it left, last records it
Return(S, op, id, node, srlg, re) ==
    /\ Apply(S)
    /\ last' = Call(op, id, node, srlg, re, S.exc)

\* a fail or unfail call ended with S
ReturnTracked(S, op, id, node, srlg, re, kind, members, fails) ==
    /\ Return(S, op, id, node, srlg, re)
    /\ Track(kind, members, fails, S.exc)

\* fail_srlg or unfail_srlg ended with r
ReturnSrlg(r, op, s, fails) ==
    /\ ReturnTracked(r.S, op, 0, "", s, FALSE, "srlg", {s}, fails)
    /\ srlg_failed' = r.sf

\* update_simulation ended with r; last.id tells whether the call before
\* it was an update_simulation too (2) or not (1)
ReturnSimulation(r) ==
    /\ Return(r.S, "update_simulation", IF last.op = "update_simulation" THEN 2 ELSE 1,
              "", "", FALSE)
    /\ lsp_path' = r.lp
    /\ lsp_reserved' = r.lr
    /\ demand_path' = r.dp

\* add_srlg ended with r
ReturnAddSrlg(r, s) ==
    /\ srlg_objects' = r.srlgs
    /\ last' = Call("add_srlg", 0, "", s, FALSE, r.exc)

\* add_to_srlg ended with r
ReturnAddToSrlg(r, n, s) ==
    /\ srlg_default_nodes' = r.node_objects
    /\ node_srlgs' = r.srlgs
    /\ last' = Call("add_to_srlg", 0, n, s, FALSE, "none")

FailInterface ==
    \E i \in DOMAIN interface_objects :
        /\ ReturnTracked(fail_interface(Cur, interface_objects[i].name, interface_objects[i].node),
                         "fail_interface", i, interface_objects[i].node, "", FALSE,
                         "interface", {i, Partner(i)}, TRUE)
        /\ saved' = interface_objects
        /\ UNCHANGED <<rsvp_lsp_objects, demand_objects, demand_path>>
        /\ ret' = NoRet
        /\ UNCHANGED <<node_objects, node_srlgs, srlg_objects, srlg_failed,
                           srlg_default_nodes, lsp_path, lsp_reserved, n_add_circuit>>

UnfailInterface ==
    \E i \in DOMAIN interface_objects, raise_exception \in BOOLEAN :
        /\ ReturnTracked(unfail_interface(Cur, interface_objects[i].name,
                                          interface_objects[i].node, raise_exception),
                         "unfail_interface", i, interface_objects[i].node, "", raise_exception,
                         "interface", {i, Partner(i)}, FALSE)
        /\ saved' = IF last.op = "fail_interface" /\ last.id = i THEN saved ELSE <<>>
        /\ UNCHANGED <<rsvp_lsp_objects, demand_objects, demand_path>>
        /\ ret' = NoRet
        /\ UNCHANGED <<node_objects, node_srlgs, srlg_objects, srlg_failed,
                           srlg_default_nodes, lsp_path, lsp_reserved, n_add_circuit>>

FailNode ==
    \E n \in node_objects :
        /\ ReturnTracked(fail_node(Cur, n), "fail_node", 0, n, "", FALSE, "node", {n}, TRUE)
        /\ saved' = <<>>
        /\ UNCHANGED <<rsvp_lsp_objects, demand_objects, demand_path>>
        /\ ret' = NoRet
        /\ UNCHANGED <<node_objects, node_srlgs, srlg_objects, srlg_failed,
                           srlg_default_nodes, lsp_path, lsp_reserved, n_add_circuit>>

UnfailNode ==
    \E n \in node_objects :
        /\ ReturnTracked(unfail_node(Cur, n), "unfail_node", 0, n, "", FALSE, "node", {n}, FALSE)
        /\ saved' = <<>>
        /\ UNCHANGED <<rsvp_lsp_objects, demand_objects, demand_path>>
        /\ ret' = NoRet
        /\ UNCHANGED <<node_objects, node_srlgs, srlg_objects, srlg_failed,
                           srlg_default_nodes, lsp_path, lsp_reserved, n_add_circuit>>

AddSrlg ==
    \E s \in SrlgNames :
        /\ s \in srlg_objects \/ Cardinality(srlg_objects) < MaxAddSrlg
        /\ ReturnAddSrlg(add_srlg(srlg_objects, s), s)
        /\ saved' = <<>>
        /\ UNCHANGED <<rsvp_lsp_objects, demand_objects, demand_path>>
        /\ ret' = NoRet
        /\ UNCHANGED <<node_objects, node_failed, node_srlgs, interface_objects,
                       circuit_objects, srlg_failed, srlg_default_nodes, lsp_path,
                       lsp_reserved, n_add_circuit, tracking, causes>>

AddToSrlg ==
    \E n \in node_objects \cap SrlgMembers, s \in srlg_objects :
        /\ ReturnAddToSrlg(add_to_srlg(n, s), n, s)
        /\ saved' = <<>>
        /\ UNCHANGED <<rsvp_lsp_objects, demand_objects, demand_path>>
        /\ ret' = NoRet
        /\ UNCHANGED <<node_objects, node_failed, interface_objects, circuit_objects,
                           srlg_objects, srlg_failed, lsp_path, lsp_reserved, n_add_circuit,
                           tracking, causes>>

FailSrlg ==
    \E s \in srlg_objects :
        \E order \in Orders(node_objects \cap srlg_node_objects(s)) :
            /\ ReturnSrlg(fail_srlg(Cur, srlg_failed, s, order), "fail_srlg", s, TRUE)
            /\ saved' = <<>>
            /\ UNCHANGED <<rsvp_lsp_objects, demand_objects, demand_path>>
            /\ ret' = NoRet
            /\ UNCHANGED <<node_objects, node_srlgs, srlg_objects, srlg_default_nodes,
                               lsp_path, lsp_reserved, n_add_circuit>>

UnfailSrlg ==
    \E s \in srlg_objects :
        \E order \in Orders(node_objects \cap srlg_node_objects(s)) :
            /\ ReturnSrlg(unfail_srlg(Cur, srlg_failed, s, order), "unfail_srlg", s, FALSE)
            /\ saved' = <<>>
            /\ UNCHANGED <<rsvp_lsp_objects, demand_objects, demand_path>>
            /\ ret' = NoRet
            /\ UNCHANGED <<node_objects, node_srlgs, srlg_objects, srlg_default_nodes,
                               lsp_path, lsp_reserved, n_add_circuit>>

UpdateSimulation ==
    /\ ReturnSimulation(update_simulation(Cur))
    /\ saved' = <<>>
    /\ UNCHANGED <<rsvp_lsp_objects, demand_objects>>
    /\ ret' = NoRet
    /\ UNCHANGED <<node_objects, node_srlgs, srlg_objects, srlg_failed,
                       srlg_default_nodes, n_add_circuit, tracking, causes>>

\* get_shortest_path(source_node_name, dest_node_name, needed_bw) returned r
ReturnShortestPath(r, s, d, needed_bw) ==
    /\ ret' = [kind |-> "get_shortest_path", source |-> s, dest |-> d,
               needed_bw |-> needed_bw, path |-> r.path, cost |-> r.cost]
    /\ last' = Call("get_shortest_path", 0, "", "", FALSE, "none")

GetShortestPath(ends, bws) ==
    /\ \E e \in ends, needed_bw \in bws :
           ReturnShortestPath(get_shortest_path(interface_objects, e[1], e[2], needed_bw),
                              e[1], e[2], needed_bw)
    /\ saved' = <<>>
    /\ UNCHANGED <<node_objects, node_failed, node_srlgs, interface_objects,
                   circuit_objects, srlg_objects, srlg_failed, srlg_default_nodes,
                   lsp_path, lsp_reserved, n_add_circuit, tracking, causes,
                   rsvp_lsp_objects, demand_objects, demand_path>>

SimGetShortestPath == GetShortestPath({<<"A", "C">>}, {0})

AddCircuit ==
    /\ n_add_circuit < MaxAddCircuit
    /\ \E e \in AddEnds, na, nb \in AddNames, failed \in BOOLEAN :
         \E ida, idb \in IntfIds \ DOMAIN interface_objects :
            /\ ida # idb
            /\ Return(add_circuit(Cur, e[1], e[2], na, nb, 1, 1, 100, failed, ida, idb),
                      "add_circuit", ida, e[1], "", failed)
            /\ ret' = [kind |-> "add_circuit", keys |-> {<<na, e[1]>>, <<nb, e[2]>>}]
    /\ n_add_circuit' = n_add_circuit + 1
    /\ saved' = <<>>
    /\ UNCHANGED <<rsvp_lsp_objects, demand_objects, demand_path>>
    /\ UNCHANGED <<node_objects, node_srlgs, srlg_objects, srlg_failed,
                   srlg_default_nodes, lsp_path, lsp_reserved, tracking, causes>>

Next ==
    \/ FailInterface
    \/ UnfailInterface
    \/ FailNode
    \/ UnfailNode
    \/ AddSrlg
    \/ AddToSrlg
    \/ FailSrlg
    \/ UnfailSrlg
    \/ UpdateSimulation

Spec == Init /\ [][Next]_vars

NextAdd ==
    \/ AddCircuit
    \/ FailInterface
    \/ UnfailInterface
    \/ FailNode
    \/ UnfailNode

SpecAdd == Init /\ [][NextAdd]_vars

NextCauses ==
    \/ FailInterface
    \/ UnfailInterface
    \/ FailNode
    \/ UnfailNode
    \/ AddSrlg
    \/ AddToSrlg
    \/ FailSrlg
    \/ UnfailSrlg

SpecCauses == InitCauses /\ [][NextCauses]_vars

NextSim ==
    \/ FailInterface
    \/ UnfailInterface
    \/ FailNode
    \/ UnfailNode
    \/ UpdateSimulation
    \/ SimGetShortestPath

SpecSim == InitSim /\ [][NextSim]_vars

\* add_node ended with r
ReturnAddNode(r, n) ==
    /\ Return(r.S, "add_node", 0, n, "", FALSE)
    /\ node_objects' = r.nodes

AddNode ==
    /\ \E n \in AddNodeNames : ReturnAddNode(add_node(Cur, node_objects, n), n)
    /\ saved' = <<>>
    /\ ret' = NoRet
    /\ UNCHANGED <<node_srlgs, srlg_objects, srlg_failed, srlg_default_nodes,
                   rsvp_lsp_objects, demand_objects, demand_path, lsp_path,
                   lsp_reserved, n_add_circuit, tracking, causes>>

\* the keys add_rsvp_lsp is called with: the LSPs a model can hold and one
\* whose destination is no node of the model
AddRsvpLspKeys == Range(LspSeq) \cup {<<"A", "Z", "lsp_new">>}

\* add_rsvp_lsp ended with r
ReturnAddRsvpLsp(r, key) ==
    /\ Return(r.S, "add_rsvp_lsp", 0, "", "", FALSE)
    /\ rsvp_lsp_objects' = r.lsps
    /\ ret' = [kind |-> "add_rsvp_lsp", key |-> key]

AddRsvpLsp ==
    /\ \E key \in AddRsvpLspKeys :
           ReturnAddRsvpLsp(add_rsvp_lsp(Cur, rsvp_lsp_objects, key[1], key[2], key[3]), key)
    /\ saved' = <<>>
    /\ UNCHANGED <<node_objects, node_srlgs, srlg_objects, srlg_failed,
                   srlg_default_nodes, demand_objects, demand_path, lsp_path,
                   lsp_reserved, n_add_circuit, tracking, causes>>

NextDup ==
    \/ AddNode
    \/ AddCircuit
    \/ AddRsvpLsp
    \/ AddSrlg

SpecDup == Init /\ [][NextDup]_vars

\* --------------------------------------------------------- path queries
\* a triangle A, B, C: the line A-B-C of cost 1 a hop and a circuit between
\* A and C of cost cost_a_c
PathCosts == {1, 2, 3}

TriangleInterfaces(cost_a_c) ==
    InitInterfaces @@
    (1 :> Interface("A-to-C", cost_a_c, 100, "A", "C", 3)) @@
    (6 :> Interface("C-to-A", cost_a_c, 100, "C", "A", 3))

PathNeededBw == {0, 75}

InitPath ==
    /\ NewModel(Nodes, InitLsps, <<>>)
    /\ \E c \in PathCosts :
           Loaded(validate_model(TriangleInterfaces(c), {}, lsp_path, lsp_reserved,
                                 demand_path))
    /\ tracking = FALSE

PathGetShortestPath == GetShortestPath(Nodes \X Nodes, PathNeededBw)

NextPath ==
    \/ FailInterface
    \/ UnfailInterface
    \/ UpdateSimulation
    \/ PathGetShortestPath

SpecPath == InitPath /\ [][NextPath]_vars

\* what get_all_paths_reservable_bw is called with
AllPathsEnds == {<<"A", "C">>, <<"A", "B">>, <<"A", "A">>}
AllPathsCutoff == {1, 2}
AllPathsNeededBw == {0, 75}

\* get_all_paths_reservable_bw returned the 'path' list path
ReturnAllPaths(path, s, d, include_failed_circuits, cutoff, needed_bw) ==
    /\ ret' = [kind |-> "get_all_paths_reservable_bw", source |-> s, dest |-> d,
               include_failed_circuits |-> include_failed_circuits, cutoff |-> cutoff,
               needed_bw |-> needed_bw, path |-> path]
    /\ last' = Call("get_all_paths_reservable_bw", 0, "", "", FALSE, "none")

GetAllPathsReservableBw ==
    /\ \E e \in AllPathsEnds, include_failed_circuits \in BOOLEAN,
          cutoff \in AllPathsCutoff, needed_bw \in AllPathsNeededBw :
           \E path \in get_all_paths_reservable_bw(interface_objects, e[1], e[2],
                                                    include_failed_circuits, cutoff, needed_bw) :
               ReturnAllPaths(path, e[1], e[2], include_failed_circuits, cutoff, needed_bw)
    /\ saved' = <<>>
    /\ UNCHANGED <<node_objects, node_failed, node_srlgs, interface_objects,
                   circuit_objects, srlg_objects, srlg_failed, srlg_default_nodes,
                   lsp_path, lsp_reserved, n_add_circuit, tracking, causes,
                   rsvp_lsp_objects, demand_objects, demand_path>>

NextAllPaths ==
    \/ AddCircuit
    \/ FailInterface
    \/ UpdateSimulation
    \/ GetAllPathsReservableBw

SpecAllPaths == Init /\ [][NextAllPaths]_vars

\* -------------------------------------------------------------- lookups
\* the names and keys the lookups are called with: some exist, some do not
LookupNodes == {"A", "C", "Z"}
LookupInterfaces == {"A-to-B", "Z-to-A"}
LookupLsps == {"lsp_a_c", "lsp_z"}
LookupDemandNames == {"dmd_a_c", "dmd_z"}
LookupDemands == (<<"A", "C", "dmd_a_c">> :> Demand("A", "C", 80))

InitLookup ==
    /\ NewModel(Nodes, InitLsps, LookupDemands)
    /\ Loaded(validate_model(InitInterfaces, {}, lsp_path, lsp_reserved, demand_path))
    /\ tracking = FALSE

\* the lookup op, called for a name or key that exists or not, ended with r
ReturnLookup(op, r, raise_exception) ==
    /\ ret' = [kind |-> "lookup", found |-> r.found, returned_none |-> r.returned_none]
    /\ last' = Call(op, 0, "", "", raise_exception, r.exc)
    /\ saved' = <<>>
    /\ UNCHANGED <<node_objects, node_failed, node_srlgs, interface_objects,
                   circuit_objects, srlg_objects, srlg_failed, srlg_default_nodes,
                   lsp_path, lsp_reserved, n_add_circuit, tracking, causes,
                   rsvp_lsp_objects, demand_objects, demand_path>>

GetNodeObject ==
    \E n \in LookupNodes : ReturnLookup("get_node_object", get_node_object(n), TRUE)

GetInterfaceObject ==
    \E name \in LookupInterfaces, n \in LookupNodes :
        ReturnLookup("get_interface_object",
                     lookup_result(get_interface_object(interface_objects, name, n) # 0, TRUE),
                     TRUE)

GetInterfaceObjectFromNodes ==
    \E local, remote \in LookupNodes :
        ReturnLookup("get_interface_object_from_nodes",
                     lookup_result(get_interface_object_from_nodes(interface_objects,
                                                                   local, remote) # 0, FALSE),
                     FALSE)

GetDemandObject ==
    \E source, dest \in LookupNodes, name \in LookupDemandNames :
        ReturnLookup("get_demand_object", get_demand_object(source, dest, name), TRUE)

GetRsvpLsp ==
    \E source, dest \in LookupNodes, name \in LookupLsps :
        ReturnLookup("get_rsvp_lsp", get_rsvp_lsp(source, dest, name), TRUE)

GetSrlgObject ==
    \E s \in SrlgNames, raise_exception \in BOOLEAN :
        ReturnLookup("get_srlg_object", get_srlg_object(s, raise_exception), raise_exception)

LookupGetShortestPath == GetShortestPath(LookupNodes \X LookupNodes, {0})

NextLookup ==
    \/ FailInterface
    \/ UnfailInterface
    \/ AddSrlg
    \/ GetNodeObject
    \/ GetInterfaceObject
    \/ GetInterfaceObjectFromNodes
    \/ GetDemandObject
    \/ GetRsvpLsp
    \/ GetSrlgObject
    \/ LookupGetShortestPath

SpecLookup == InitLookup /\ [][NextLookup]_vars

\* ------------------------------------------- rerouting of a routed LSP
\* a triangle A, B, C of capacity 100 whose circuit between A and C of
\* cost 2 is rsvp_enabled or not, with one or two LSPs from A to C
RsvpInterfaces(rsvp_enabled) ==
    [i \in DOMAIN TriangleInterfaces(2) |->
        IF i \in {1, 6}
        THEN [TriangleInterfaces(2)[i] EXCEPT !.rsvp_enabled = rsvp_enabled]
        ELSE TriangleInterfaces(2)[i]]

InitRoutedLsp ==
    /\ \E lsps \in {InitLsps, TwoLsps} : NewModel(Nodes, lsps, <<>>)
    /\ \E rsvp_enabled \in BOOLEAN :
           Loaded(validate_model(RsvpInterfaces(rsvp_enabled), {}, lsp_path, lsp_reserved,
                                 demand_path))
    /\ tracking = FALSE

RoutedLspNeededBw == {50, 75, 150}

\* get_shortest_path_for_routed_lsp returned r for LSP l
ReturnRoutedLsp(r, l, needed_bw) ==
    /\ ret' = [kind |-> "get_shortest_path_for_routed_lsp", lsp |-> l,
               needed_bw |-> needed_bw,
               edges |-> {<<e[1], e[2], r.G.cost[e]>> : e \in Range(r.G.edges)},
               nodes |-> r.G.nodes, path |-> r.sp.path, cost |-> r.sp.cost]
    /\ last' = Call("get_shortest_path_for_routed_lsp", 0, "", "", FALSE, "none")

GetShortestPathForRoutedLsp ==
    /\ \E l \in DOMAIN rsvp_lsp_objects, needed_bw \in RoutedLspNeededBw :
           /\ lsp_path[l].routed
           /\ ReturnRoutedLsp(
                  get_shortest_path_for_routed_lsp(interface_objects,
                      _make_weighted_network_graph_routed_lsp(interface_objects, node_objects,
                          lsp_path[l].interfaces, lsp_reserved[l], needed_bw),
                      l[1], l[2]),
                  l, needed_bw)
    /\ saved' = <<>>
    /\ UNCHANGED <<node_objects, node_failed, node_srlgs, interface_objects,
                   circuit_objects, srlg_objects, srlg_failed, srlg_default_nodes,
                   lsp_path, lsp_reserved, n_add_circuit, tracking, causes,
                   rsvp_lsp_objects, demand_objects, demand_path>>

NextRoutedLsp ==
    \/ FailInterface
    \/ UnfailInterface
    \/ UpdateSimulation
    \/ GetShortestPathForRoutedLsp

SpecRoutedLsp == InitRoutedLsp /\ [][NextRoutedLsp]_vars

\* ------------------------------------------ parallel links between nodes
\* node names, two of them with the '-' character
LinkNodes == {"A", "B", "C", "A-B", "B-C"}

\* the circuits a model over LinkNodes is built from: circuit k has the
\* interfaces 2k-1 and 2k
LinkCircuits ==
    <<  <<"A", "B">>, <<"A", "B">>, <<"B", "C">>, <<"A", "C">>,
        <<"A-B", "C">>, <<"A", "B-C">>, <<"A-B", "B-C">>  >>

LinkInterfaces(circuits) ==
    [i \in UNION {{2 * k - 1, 2 * k} : k \in circuits} |->
        IF i % 2 = 1
        THEN Interface("a-side", 1, 100, LinkCircuits[(i + 1) \div 2][1],
                       LinkCircuits[(i + 1) \div 2][2], (i + 1) \div 2)
        ELSE Interface("b-side", 1, 100, LinkCircuits[i \div 2][2],
                       LinkCircuits[i \div 2][1], i \div 2)]

\* Model(interface_objects, node_objects): the constructor takes any set
InitLinks ==
    /\ NewModel(LinkNodes, <<>>, <<>>)
    /\ \E circuits \in SUBSET DOMAIN LinkCircuits :
           interface_objects = LinkInterfaces(circuits)
    /\ circuit_objects = {}
    /\ tracking = FALSE

\* multiple_links_between_nodes(): the list it returns, before the sort
\* that only orders it
MultipleLinksBetweenNodes ==
    /\ ret' = [kind |-> "multiple_links_between_nodes",
               parallel_links |-> multiple_links_between_nodes(interface_objects)]
    /\ last' = Call("multiple_links_between_nodes", 0, "", "", FALSE, "none")
    /\ saved' = <<>>
    /\ UNCHANGED <<node_objects, node_failed, node_srlgs, interface_objects,
                   circuit_objects, srlg_objects, srlg_failed, srlg_default_nodes,
                   lsp_path, lsp_reserved, n_add_circuit, tracking, causes,
                   rsvp_lsp_objects, demand_objects, demand_path>>

NextLinks == MultipleLinksBetweenNodes

SpecLinks == InitLinks /\ [][NextLinks]_vars

\* ---------------------------------------------------------- SRLG members
\* add_srlg on a model that may hold up to MaxSrlgs SRLGs
AddSrlgs ==
    \E s \in SrlgNames :
        /\ s \in srlg_objects \/ Cardinality(srlg_objects) < MaxSrlgs
        /\ ReturnAddSrlg(add_srlg(srlg_objects, s), s)
        /\ saved' = <<>>
        /\ ret' = NoRet
        /\ UNCHANGED <<node_objects, node_failed, node_srlgs, interface_objects,
                       circuit_objects, srlg_failed, srlg_default_nodes, lsp_path,
                       lsp_reserved, n_add_circuit, tracking, causes,
                       rsvp_lsp_objects, demand_objects, demand_path>>

\* validate_srlg_nodes(): the set srlg_objects is iterated in some order
ValidateSrlgNodes ==
    /\ \E order \in Orders(srlg_objects) :
           ret' = [kind |-> "validate_srlg_nodes",
                   srlg_errors |-> srlg_errors_dict(order, <<>>)]
    /\ last' = Call("validate_srlg_nodes", 0, "", "", FALSE, "none")
    /\ saved' = <<>>
    /\ UNCHANGED <<node_objects, node_failed, node_srlgs, interface_objects,
                   circuit_objects, srlg_objects, srlg_failed, srlg_default_nodes,
                   lsp_path, lsp_reserved, n_add_circuit, tracking, causes,
                   rsvp_lsp_objects, demand_objects, demand_path>>

NextSrlg ==
    \/ AddSrlgs
    \/ AddToSrlg
    \/ ValidateSrlgNodes

SpecSrlg == Init /\ [][NextSrlg]_vars

\* ------------------------------------------- simulation around failures
\* a triangle A, B, C of two paths of cost 2 from A to C, with a demand
\* and with or without an LSP from A to C: a failed interface leaves a path
RerouteDemands == (<<"A", "C", "dmd_a_c">> :> Demand("A", "C", 40))

InitReroute ==
    /\ \E lsps \in {<<>>, InitLsps} : NewModel(Nodes, lsps, RerouteDemands)
    /\ Loaded(validate_model(TriangleInterfaces(2), {}, lsp_path, lsp_reserved, demand_path))
    /\ tracking = FALSE

NextReroute ==
    \/ FailInterface
    \/ UnfailInterface
    \/ UpdateSimulation

SpecReroute == InitReroute /\ [][NextReroute]_vars

\* ------------------------------------------------------------- mutations
\* change_interface_name is called for the interface B-to-A of node B, while
\* it has that name, and for names B has no interface of
RenameFrom == {"B-to-A", "B-to-X"}
RenameTo == {"B-to-C", "B-to-A-2"}

ChangeInterfaceName ==
    /\ \E current \in RenameFrom, new \in RenameTo :
           Return(change_interface_name(Cur, "B", current, new),
                  "change_interface_name", 0, "B", "", FALSE)
    /\ saved' = <<>>
    /\ ret' = NoRet
    /\ UNCHANGED <<node_objects, node_srlgs, srlg_objects, srlg_failed,
                   srlg_default_nodes, rsvp_lsp_objects, demand_objects, demand_path,
                   lsp_path, lsp_reserved, n_add_circuit, tracking, causes>>

NextMutate ==
    \/ ChangeInterfaceName
    \/ AddNode
    \/ AddSrlg
    \/ FailInterface
    \/ UnfailInterface
    \/ UpdateSimulation

SpecMutate == Init /\ [][NextMutate]_vars

\* --------------------------------------------- circuits added and renamed
NextRename ==
    \/ AddCircuit
    \/ ChangeInterfaceName

SpecRename == Init /\ [][NextRename]_vars

\* ------------------------------------- failures of a model with traffic
\* the line A-B-C of capacity 200 with one LSP and one demand from A to C
InitFrame ==
    /\ NewModel(Nodes, InitLsps, LookupDemands)
    /\ Loaded(validate_model(LineInterfaces(200), {}, lsp_path, lsp_reserved, demand_path))
    /\ tracking = FALSE

SpecFrame == InitFrame /\ [][Next]_vars

\* ------------------------------------------- validation of a loaded model
\* the interfaces a model is built from: any of the two circuits' four
\* interfaces, each with a capacity of its own, and a second interface from
\* A to B
ValidateCapacities == {100, 200}

ValidateSlots(cap) ==
    (2 :> Interface("A-to-B", 1, cap[2], "A", "B", 1)) @@
    (3 :> Interface("B-to-A", 1, cap[3], "B", "A", 1)) @@
    (4 :> Interface("B-to-C", 1, cap[4], "B", "C", 2)) @@
    (5 :> Interface("C-to-B", 1, cap[5], "C", "B", 2)) @@
    (6 :> Interface("A-to-B-2", 1, cap[6], "A", "B", 3))

ValidateInterfaces ==
    {[i \in D |-> ValidateSlots(cap)[i]] :
        cap \in [2..6 -> ValidateCapacities], D \in SUBSET (2..6)}

InitValidate ==
    /\ NewModel(Nodes, <<>>, <<>>)
    /\ interface_objects \in ValidateInterfaces
    /\ circuit_objects = {}
    /\ tracking = FALSE

\* validate_model ended with v
ReturnValidate(v) ==
    /\ interface_objects' = v.ints
    /\ circuit_objects' = v.circuits
    /\ ret' = [kind |-> "validate_model", error_data |-> v.error_data,
               message |-> v.message, data |-> v.data]
    /\ last' = Call("validate_model", 0, "", "", FALSE, v.exc)

ValidateModel ==
    /\ ReturnValidate(validate_model(interface_objects, circuit_objects,
                                     lsp_path, lsp_reserved, demand_path))
    /\ saved' = <<>>
    /\ UNCHANGED <<node_objects, node_failed, node_srlgs, srlg_objects, srlg_failed,
                   srlg_default_nodes, rsvp_lsp_objects, demand_objects, demand_path,
                   lsp_path, lsp_reserved, n_add_circuit, tracking, causes>>

NextValidate == ValidateModel

SpecValidate == InitValidate /\ [][NextValidate]_vars

TypeOK ==
    /\ DOMAIN interface_objects \subseteq IntfIds
    /\ \A i \in DOMAIN interface_objects : interface_objects[i].failed \in BOOLEAN

\* ----------------------------------------------------------------- claims
Ints == DOMAIN interface_objects
failed(i) == interface_objects[i].failed
owner(i) == interface_objects[i].node
remote(i) == interface_objects[i].remote
EndpointFailed(i) == node_failed[owner(i)] \/ node_failed[owner(Partner(i))]
OthersKeepFailed(keep) ==
    \A j \in Ints \ keep : interface_objects'[j].failed = interface_objects[j].failed
Returned(op) == last.op = op /\ last.exc = "none"

\* C1: after any sequence of fail_interface, unfail_interface, fail_node,
\* unfail_node, fail_srlg and unfail_srlg calls on a validated model, the two
\* interfaces of every circuit have the same failed status.
C1_CircuitFailedSymmetric ==
    \A c \in circuit_objects : failed(c[1]) = failed(c[2])

C1_Witness ==
    /\ last.op = "unfail_node"
    /\ \E c, d \in circuit_objects : failed(c[1]) /\ failed(c[2]) /\ ~failed(d[1]) /\ ~failed(d[2])

\* C2: fail_interface(i) returns with i and its paired remote interface
\* failed, and changes the failed flag of no other interface and of no node.
C2_FailInterfaceEffect ==
    [][(last'.op = "fail_interface" /\ last'.exc = "none") =>
          /\ interface_objects'[last'.id].failed
          /\ interface_objects'[Partner(last'.id)].failed
          /\ OthersKeepFailed({last'.id, Partner(last'.id)})
          /\ node_failed' = node_failed]_vars

C2_Witness ==
    /\ Returned("fail_interface")
    /\ failed(last.id) /\ failed(Partner(last.id))
    /\ ~saved[last.id].failed
    /\ \E j \in Ints \ {last.id, Partner(last.id)} : ~failed(j)
    /\ ~node_failed[owner(last.id)]

\* C3: an interface or node is failed in every state in which a cause of
\* its failure is active: a fail_interface on its circuit, a fail_node on
\* the node (or on an endpoint node of the interface) or a fail_srlg on an
\* SRLG containing it, not yet undone by the matching unfail call.
C3_FailedWhileCauseActive ==
    /\ \A i \in Ints :
          (\/ i \in causes.interface
           \/ owner(i) \in causes.node
           \/ remote(i) \in causes.node) => failed(i)
    /\ \A n \in node_objects :
          (\/ n \in causes.node
           \/ \E s \in causes.srlg : n \in srlg_node_objects(s)) => node_failed[n]

C5_UnfailInterfaceEffect ==
    [][(last'.op = "unfail_interface" /\ ~EndpointFailed(last'.id)) =>
          \A j \in {last'.id, Partner(last'.id)} :
              /\ interface_objects'[j].failed = FALSE
              /\ interface_objects'[j].reserved_bandwidth = 0]_vars

C5_Witness ==
    /\ last.op = "unfail_interface"
    /\ ~EndpointFailed(last.id)
    /\ ~failed(last.id) /\ ~failed(Partner(last.id))
    /\ interface_objects[last.id].reserved_bandwidth = 0
    /\ \E l \in LspNames : lsp_path[l].routed /\ last.id \in Range(lsp_path[l].interfaces)

\* the state reached by fail_interface(i) then unfail_interface(i), for an
\* interface i that was not failed, with neither endpoint node failed
FailThenUnfail ==
    /\ last.op = "unfail_interface"
    /\ saved # <<>>
    /\ ~saved[last.id].failed
    /\ ~EndpointFailed(last.id)

\* C6 (as stated): with neither endpoint node failed, fail_interface(i)
\* followed by unfail_interface(i) on an interface that was not failed
\* leaves the failed flag and the reserved_bandwidth of every interface as
\* they were before fail_interface.
C6_ExactInverse ==
    FailThenUnfail =>
        \A j \in Ints :
            /\ failed(j) = saved[j].failed
            /\ interface_objects[j].reserved_bandwidth = saved[j].reserved_bandwidth

\* C6 (amended): fail_interface(i) followed by unfail_interface(i) leaves
\* the failed flag of every interface as before, the reserved_bandwidth of
\* every interface other than i and its paired remote interface as before,
\* and the reserved_bandwidth of i and of its remote interface at 0.
C6_InverseUpToReservation ==
    FailThenUnfail =>
        /\ \A j \in Ints : failed(j) = saved[j].failed
        /\ \A j \in Ints \ {last.id, Partner(last.id)} :
              interface_objects[j].reserved_bandwidth = saved[j].reserved_bandwidth
        /\ \A j \in {last.id, Partner(last.id)} :
              interface_objects[j].reserved_bandwidth = 0

C6_Witness ==
    /\ FailThenUnfail
    /\ saved[last.id].reserved_bandwidth > 0
    /\ \E j \in Ints \ {last.id, Partner(last.id)} : saved[j].reserved_bandwidth > 0
    /\ \E j \in Ints : saved[j].failed

\* C7: fail_node(n) returns with n failed and every interface owned by n
\* and its paired remote interface failed; no other node's flag changes.
C7_FailNodeEffect ==
    [][(last'.op = "fail_node" /\ last'.exc = "none") =>
          /\ node_failed'[last'.node]
          /\ \A i \in Ints : owner(i) = last'.node =>
                /\ interface_objects'[i].failed
                /\ interface_objects'[Partner(i)].failed
          /\ \A m \in node_objects \ {last'.node} : node_failed'[m] = node_failed[m]]_vars

C7_Witness ==
    /\ Returned("fail_node")
    /\ Cardinality({i \in Ints : owner(i) = last.node}) = 2
    /\ \A i \in Ints : owner(i) = last.node => failed(i) /\ failed(Partner(i))
    /\ \E m \in node_objects : ~node_failed[m]

\* C8: unfail_node(n) returns with n not failed; every interface owned by n
\* and its paired remote interface are not failed if the interface's remote
\* node is not failed, and are failed if the remote node is failed.
C8_UnfailNodeEffect ==
    [][(last'.op = "unfail_node" /\ last'.exc = "none") =>
          /\ ~node_failed'[last'.node]
          /\ \A i \in Ints : owner(i) = last'.node =>
                IF node_failed'[remote(i)]
                THEN interface_objects'[i].failed /\ interface_objects'[Partner(i)].failed
                ELSE ~interface_objects'[i].failed /\ ~interface_objects'[Partner(i)].failed]_vars

C8_Witness ==
    /\ Returned("unfail_node")
    /\ ~node_failed[last.node]
    /\ \E i, j \in Ints :
          /\ owner(i) = last.node /\ owner(j) = last.node
          /\ node_failed[remote(i)] /\ failed(i)
          /\ ~node_failed[remote(j)] /\ ~failed(j)

\* C9: fail_srlg(s), for an SRLG added with add_srlg and given member
\* nodes and member circuits, completes with s.failed true, every member
\* node failed and both interfaces of every member circuit failed.
C9_FailSrlgCompletes ==
    (last.op = "fail_srlg" /\ srlg_node_objects(last.srlg) # {}) =>
        /\ last.exc = "none"
        /\ srlg_failed[last.srlg]
        /\ \A n \in srlg_node_objects(last.srlg) : node_failed[n]

\* the model passes validate_model as it stands
Validated ==
    validate_model(interface_objects, circuit_objects, lsp_path, lsp_reserved, demand_path).exc = "none"

\* C10: after any sequence of add_circuit, fail_interface, unfail_interface,
\* fail_node and unfail_node calls, an interface that is not failed has an
\* owning node and a remote node that are both not failed.  It is stated for
\* the states whose model validates and whose last call returned.
C10_NoUnfailedInterfaceOnFailedNode ==
    (Validated /\ last.exc = "none") =>
        \A i \in Ints : ~failed(i) => ~node_failed[owner(i)] /\ ~node_failed[remote(i)]

\* C11: after every update_simulation call that returns without raising,
\* every interface has reserved_bandwidth <= capacity *
\* percent_reservable_bandwidth / 100
C11_ReservedWithinCapacity ==
    Returned("update_simulation") =>
        \A i \in Ints :
            interface_objects[i].reserved_bandwidth * 100 <=
                interface_objects[i].capacity * interface_objects[i].percent_reservable_bandwidth

\* update_simulation returned with an interface reserved to its limit
C11_Witness ==
    /\ Returned("update_simulation")
    /\ \E i \in Ints :
           /\ interface_objects[i].reserved_bandwidth > 0
           /\ interface_objects[i].reserved_bandwidth * 100 =
                  interface_objects[i].capacity * interface_objects[i].percent_reservable_bandwidth

\* update_simulation raised over an interface reserved beyond its limit
C11_Rejected ==
    /\ last.op = "update_simulation" /\ last.exc = "ModelException"
    /\ \E i \in Ints :
           interface_objects[i].reserved_bandwidth * 100 >
               interface_objects[i].capacity * interface_objects[i].percent_reservable_bandwidth

\* C12: update_simulation run twice in a row: the second run leaves every
\* interface's reserved_bandwidth and traffic and every LSP's and Demand's
\* path as the first run left them, whatever state the first run started from
C12_UpdateSimulationIdempotent ==
    [][(last.op = "update_simulation" /\ last'.op = "update_simulation") =>
          /\ DOMAIN interface_objects' = DOMAIN interface_objects
          /\ \A i \in Ints :
                 /\ interface_objects'[i].reserved_bandwidth = interface_objects[i].reserved_bandwidth
                 /\ interface_objects'[i].traffic = interface_objects[i].traffic
          /\ lsp_path' = lsp_path
          /\ demand_path' = demand_path]_vars

\* update_simulation has run twice in a row over a model with a routed
\* demand and traffic on an interface
C12_Witness ==
    /\ last.op = "update_simulation" /\ last.id = 2
    /\ \E i \in Ints : interface_objects[i].traffic > 0
    /\ \E d \in DOMAIN demand_objects : demand_path[d].routed

\* the interfaces that have no interface in the reverse direction
ints_w_no_remote_int ==
    {i \in Ints : ~\E j \in Ints : owner(j) = remote(i) /\ remote(j) = owner(i)}

\* the pairs of opposite interfaces of one circuit_id whose capacities differ
mismatched_interface_capacity ==
    {c \in Ints \X Ints :
        /\ owner(c[2]) = remote(c[1]) /\ remote(c[2]) = owner(c[1])
        /\ interface_objects[c[1]].circuit_id = interface_objects[c[2]].circuit_id
        /\ interface_objects[c[1]].capacity # interface_objects[c[2]].capacity}

\* the checks of validate_model that the model violates
violated_checks ==
    (IF ints_w_no_remote_int # {} THEN {"ints_w_no_remote_int"} ELSE {})
    \cup (IF mismatched_interface_capacity # {}
          THEN {"circuits_with_mismatched_interface_capacity"} ELSE {})
    \cup (IF \E i, j \in Ints : i # j /\ owner(i) = owner(j) /\ remote(i) = remote(j)
          THEN {"multiple_links_between_nodes"} ELSE {})

\* the checks the ModelException of validate_model reports: the entries of
\* its error_data, or the unmatched interfaces its message lists
reported_checks ==
    IF ret.data # <<>> THEN {"ints_w_no_remote_int"} ELSE ret.error_data

\* C13: when validate_model raises, its ModelException has one entry for
\* every violated check: it never stops at the first violated check.
C13_OneEntryPerViolatedCheck ==
    (last.op = "validate_model" /\ last.exc = "ModelException") =>
        reported_checks = violated_checks

\* validate_model does gather every violated check when no interface is
\* unmatched
C13_AggregatesWhenAllMatched ==
    (last.op = "validate_model" /\ last.exc = "ModelException"
        /\ ints_w_no_remote_int = {}) =>
        reported_checks = violated_checks

C13_TwoEntries ==
    /\ last.op = "validate_model" /\ last.exc = "ModelException"
    /\ Cardinality(ret.error_data) = 2

\* the circuits of circuit_objects that interface i is part of
circuits_of(i) == {c \in circuit_objects : i \in {c[1], c[2]}}

\* C20: after validate_model returns without raising, every interface is in
\* exactly one circuit of circuit_objects, the two interfaces of a circuit
\* share a circuit_id no other circuit uses, and each one's remote node is
\* the other's node; when an interface has no interface in the reverse
\* direction, validate_model raises ModelException and lists that interface
\* by its two nodes.
C20_CircuitsPairInterfaces ==
    last.op = "validate_model" =>
        /\ last.exc = "none" =>
              /\ \A i \in Ints : Cardinality(circuits_of(i)) = 1
              /\ \A c \in circuit_objects :
                    /\ c[1] # c[2]
                    /\ interface_objects[c[1]].circuit_id = interface_objects[c[2]].circuit_id
                    /\ remote(c[1]) = owner(c[2]) /\ remote(c[2]) = owner(c[1])
                    /\ \A e \in circuit_objects \ {c} :
                          interface_objects[e[1]].circuit_id # interface_objects[c[1]].circuit_id
        /\ \A i \in ints_w_no_remote_int :
              /\ last.exc = "ModelException"
              /\ <<owner(i), remote(i)>> \in Range(ret.data)

C20_Witness ==
    /\ Returned("validate_model")
    /\ Cardinality(Ints) = 4
    /\ Cardinality(circuit_objects) = 2

C20_UnmatchedRaised ==
    /\ last.op = "validate_model" /\ last.exc = "ModelException"
    /\ ints_w_no_remote_int # {}
    /\ circuit_objects = {}

\* the lookups of the model by name or key
Lookups ==
    {"get_node_object", "get_interface_object", "get_interface_object_from_nodes",
     "get_demand_object", "get_rsvp_lsp", "get_srlg_object"}

\* C14: a lookup by a name that does not exist raises: get_node_object,
\* get_interface_object, get_interface_object_from_nodes, get_demand_object,
\* get_rsvp_lsp, get_srlg_object, and get_shortest_path for its node names;
\* none returns None or an empty result.
C14_LookupOfMissingNameRaises ==
    /\ (last.op \in Lookups /\ ~ret.found) => last.exc # "none"
    /\ (last.op = "get_shortest_path"
          /\ (ret.source \notin node_objects \/ ret.dest \notin node_objects)) =>
            last.exc # "none"

\* the lookups that do raise for a missing name
C14_RaisingLookups ==
    (last.op \in Lookups \ {"get_interface_object_from_nodes"} /\ ~ret.found
        /\ last.raise_exception) => last.exc = "ModelException"

\* the (name, node) identities of the interfaces of the model
interface_keys == {_key(interface_objects[i]) : i \in Ints}

\* the call of this step raised and left the four sets as they were
RejectedUnchanged ==
    /\ last'.exc = "ModelException"
    /\ node_objects' = node_objects
    /\ interface_objects' = interface_objects
    /\ rsvp_lsp_objects' = rsvp_lsp_objects
    /\ srlg_objects' = srlg_objects

\* C15: add_node with the name of a node of the model, add_circuit with an
\* interface (name, node) that exists, add_rsvp_lsp with a (source, dest,
\* name) that exists and add_srlg with the name of an SRLG of the model each
\* raise ModelException and leave the node, interface, LSP and SRLG sets
\* as they were.
C15_DuplicateRejected ==
    [][/\ (last'.op = "add_node" /\ last'.node \in node_objects) => RejectedUnchanged
       /\ (last'.op = "add_circuit" /\ ret'.keys \cap interface_keys # {}) => RejectedUnchanged
       /\ (last'.op = "add_rsvp_lsp" /\ ret'.key \in DOMAIN rsvp_lsp_objects) =>
              RejectedUnchanged
       /\ (last'.op = "add_srlg" /\ last'.srlg \in srlg_objects) => RejectedUnchanged]_vars

C15_Witness ==
    /\ last.op = "add_circuit" /\ last.exc = "ModelException"
    /\ ret.keys \cap interface_keys # {}
    /\ Cardinality(Ints) = 4

\* the interfaces a path that needs needed_bw may use
usable_interfaces(needed_bw) ==
    {i \in Ints : ~failed(i) /\ reservable_bandwidth(interface_objects[i]) >= needed_bw}

\* the interface sequences that lead from source to dest hop by hop
interface_paths(source, dest, needed_bw) ==
    {p \in UNION {[1..n -> usable_interfaces(needed_bw)] : n \in 0..Cardinality(Nodes)} :
        /\ IF Len(p) = 0 THEN source = dest
           ELSE owner(p[1]) = source /\ remote(p[Len(p)]) = dest
        /\ \A k \in 1..(Len(p) - 1) : remote(p[k]) = owner(p[k + 1])}

RECURSIVE path_cost(_)
path_cost(p) ==
    IF p = <<>> THEN 0 ELSE interface_objects[Head(p)].cost + path_cost(Tail(p))

\* the paths of all that no path of all undercuts
cheapest(all) == {p \in all : \A q \in all : path_cost(p) <= path_cost(q)}

\* C16: without parallel links get_shortest_path(source, dest, needed_bw)
\* returns exactly the paths of least total cost from source to dest over
\* the interfaces that are not failed and have reservable_bandwidth >=
\* needed_bw, each as the sequence of the interfaces of its hops, and that
\* least cost; when there is no such path it returns no path and cost None.
C16_ShortestPathsExact ==
    last.op = "get_shortest_path" =>
        /\ last.exc = "none"
        /\ ret.path = cheapest(interface_paths(ret.source, ret.dest, ret.needed_bw))
        /\ \A p \in ret.path : ret.cost = path_cost(p)
        /\ ret.path = {} => ret.cost = -1

C16_Witness ==
    /\ last.op = "get_shortest_path"
    /\ Cardinality(ret.path) = 2
    /\ ret.needed_bw = 75
    /\ \E i \in Ints : interface_objects[i].reserved_bandwidth > 0

C16_NoPath ==
    /\ last.op = "get_shortest_path"
    /\ ret.path = {} /\ ret.cost = -1
    /\ \E i \in Ints : owner(i) = ret.source /\ ~failed(i)

\* the interfaces of the one path from A to C of the line A-B-C
only_path_a_c == {i \in Ints : <<owner(i), remote(i)>> \in {<<"A", "B">>, <<"B", "C">>}}

\* the demands from A to C
demands_a_c == {d \in DOMAIN demand_objects : d[1] = "A" /\ d[2] = "C"}

\* C17: once every interface of the only path between two nodes is failed,
\* get_shortest_path between them returns no path and cost None, and
\* after the next update_simulation every Demand between them is Unrouted.
C17_NoPathWhenOnlyPathFailed ==
    (\A i \in only_path_a_c : failed(i)) =>
        /\ (last.op = "get_shortest_path" /\ ret.source = "A" /\ ret.dest = "C") =>
              ret.path = {} /\ ret.cost = -1
        /\ last.op = "update_simulation" =>
              \A d \in demands_a_c : ~demand_path[d].routed /\ demand_path[d].paths = <<>>

C17_Witness ==
    /\ Returned("update_simulation")
    /\ \A i \in only_path_a_c : failed(i)
    /\ demands_a_c # {}
    /\ \A d \in demands_a_c : ~demand_path[d].routed

C17_EmptyPath ==
    /\ last.op = "get_shortest_path" /\ ret.path = {} /\ ret.cost = -1
    /\ \A i \in only_path_a_c : failed(i)

\* the routed LSPs between the source and the destination of demand d
routed_group(d) ==
    {l \in DOMAIN rsvp_lsp_objects : l[1] = d[1] /\ l[2] = d[2] /\ lsp_path[l].routed}

\* the traffic the demands put on interface i: each demand's share once for
\* every one of its paths that crosses i
demand_traffic(i) ==
    SumOver(DOMAIN demand_objects,
            [d \in DOMAIN demand_objects |->
                demand_path[d].share * times_on_paths(i, demand_path[d].paths)])

\* C19: after update_simulation a Demand whose source and destination have
\* routed LSPs is split evenly over them: its path is the list of the paths
\* of those LSPs, each carries magnitude / (number of routed LSPs), 40 of 80
\* over two LSPs, and every interface carries that share once for each of
\* the paths that cross it.
C19_DemandSplitOverLsps ==
    last.op = "update_simulation" =>
        /\ \A d \in DOMAIN demand_objects :
              routed_group(d) # {} =>
                /\ demand_path[d].routed
                /\ demand_path[d].share * Cardinality(routed_group(d)) =
                       demand_objects[d].traffic
                /\ \E f \in Orders(routed_group(d)) :
                       demand_path[d].paths =
                           [k \in 1..Cardinality(routed_group(d)) |-> lsp_path[f[k]].interfaces]
        /\ \A i \in Ints : interface_objects[i].traffic = demand_traffic(i)

C19_Witness ==
    /\ Returned("update_simulation")
    /\ \E d \in DOMAIN demand_objects :
          /\ Cardinality(routed_group(d)) = 2
          /\ demand_objects[d].traffic = 80
          /\ demand_path[d].share = 40
          /\ Len(demand_path[d].paths) = 2

C19_OneRoutedMember ==
    /\ last.op = "update_simulation"
    /\ \E d \in DOMAIN demand_objects :
          /\ Cardinality(routed_group(d)) = 1
          /\ Cardinality(parallel_lsp_group(d[1], d[2])) = 2
          /\ demand_path[d].share = 80

\* the interfaces a path may use under the two filters
allowed_interfaces(include_failed_circuits, needed_bw) ==
    {i \in Ints : /\ include_failed_circuits \/ ~failed(i)
                  /\ reservable_bandwidth(interface_objects[i]) >= needed_bw}

\* some sequence of at most cutoff allowed interfaces leads from source to dest
within_cutoff(source, dest, include_failed_circuits, cutoff, needed_bw) ==
    \E n \in 0..cutoff :
        \E p \in [1..n -> allowed_interfaces(include_failed_circuits, needed_bw)] :
            /\ IF n = 0 THEN source = dest
               ELSE owner(p[1]) = source /\ remote(p[n]) = dest
            /\ \A k \in 1..(n - 1) : remote(p[k]) = owner(p[k + 1])

\* the nodes the interface path p visits
visited(p) == [k \in 1..(Len(p) + 1) |-> IF k = 1 THEN owner(p[1]) ELSE remote(p[k - 1])]

\* the paths get_all_paths_reservable_bw returned: simple, within the
\* cutoff, over allowed interfaces only
paths_well_formed ==
    \A p \in ret.path :
        /\ p # <<>> => \A a, b \in 1..(Len(p) + 1) : visited(p)[a] = visited(p)[b] => a = b
        /\ Len(p) <= ret.cutoff
        /\ \A k \in 1..Len(p) :
              p[k] \in allowed_interfaces(ret.include_failed_circuits, ret.needed_bw)

\* C18: every path get_all_paths_reservable_bw returns visits no node
\* twice, has at most cutoff interfaces and uses only interfaces with
\* reservable_bandwidth >= needed_bw that are not failed when
\* include_failed_circuits is False; when source and dest are more than
\* cutoff hops apart it returns no path.
C18_AllPathsWithinFilters ==
    last.op = "get_all_paths_reservable_bw" =>
        /\ paths_well_formed
        /\ ~within_cutoff(ret.source, ret.dest, ret.include_failed_circuits,
                          ret.cutoff, ret.needed_bw) => ret.path = {}

\* the claim holds of a model without two interfaces between one node pair
C18_HoldsWithoutParallelLinks ==
    (last.op = "get_all_paths_reservable_bw"
        /\ \A i, j \in Ints : (owner(i) = owner(j) /\ remote(i) = remote(j)) => i = j) =>
        /\ paths_well_formed
        /\ ~within_cutoff(ret.source, ret.dest, ret.include_failed_circuits,
                          ret.cutoff, ret.needed_bw) => ret.path = {}

C18_TwoPaths ==
    /\ last.op = "get_all_paths_reservable_bw"
    /\ Cardinality(ret.path) = 2
    /\ \A i, j \in Ints : (owner(i) = owner(j) /\ remote(i) = remote(j)) => i = j

\* the calls that fail or unfail an interface, a node or an SRLG
FailureOps ==
    {"fail_interface", "unfail_interface", "fail_node", "unfail_node", "fail_srlg",
     "unfail_srlg"}

\* this step left every LSP path, every Demand path and the traffic of
\* every interface as they were
SimulationResultsKept ==
    /\ lsp_path' = lsp_path
    /\ demand_path' = demand_path
    /\ DOMAIN interface_objects' = DOMAIN interface_objects
    /\ \A i \in Ints : interface_objects'[i].traffic = interface_objects[i].traffic

\* C21: fail_interface, unfail_interface, fail_node, unfail_node, fail_srlg
\* and unfail_srlg leave every LSP path, every Demand path and the traffic
\* of every interface unchanged; those change only in update_simulation.
C21_FailuresRunNoSimulation ==
    [][/\ last'.op \in FailureOps => SimulationResultsKept
       /\ ~SimulationResultsKept => last'.op = "update_simulation"]_vars

C21_Witness ==
    /\ last.op \in FailureOps /\ last.exc = "none"
    /\ \E i \in Ints : failed(i) /\ interface_objects[i].traffic > 0
    /\ \E d \in DOMAIN demand_objects : demand_path[d].routed
    /\ \E l \in DOMAIN rsvp_lsp_objects : lsp_path[l].routed

\* the calls that change the topology or the state of the model
Mutations ==
    {"add_circuit", "add_node", "add_rsvp_lsp", "add_srlg", "change_interface_name",
     "fail_interface", "unfail_interface", "fail_node", "unfail_node", "fail_srlg",
     "unfail_srlg", "update_simulation"}

\* validate_model would return: the model is as a run of the validator
\* that does not raise leaves it
passes_validation ==
    validate_model(interface_objects, circuit_objects, lsp_path, lsp_reserved,
                   demand_path).exc = "none"

\* C22: every call that changes the topology or the state of the model runs
\* validate_model before it returns normally, so the model it returns
\* passes validation.
C22_ValidatedAfterMutation ==
    (last.op \in Mutations /\ last.exc = "none") => passes_validation

\* the calls whose code does end in validate_model return a valid model
C22_ValidatingCalls ==
    (last.op \in {"add_node", "update_simulation"} /\ last.exc = "none") => passes_validation

\* the reserved bandwidth of LSP l that counts for interface i
credit(l, i) == IF i \in Range(lsp_path[l].interfaces) THEN lsp_reserved[l] ELSE 0

\* the interfaces LSP l may be rerouted over when it needs needed_bw
eligible_interfaces(l, needed_bw) ==
    {i \in Ints : /\ ~failed(i)
                  /\ interface_objects[i].rsvp_enabled
                  /\ reservable_bandwidth(interface_objects[i]) + credit(l, i) >= needed_bw}

\* C23: the graph built for rerouting a routed LSP has an edge (owning
\* node, remote node, cost) for exactly the interfaces that are not failed,
\* are rsvp_enabled and have reservable_bandwidth + c >= needed_bw, c being
\* the LSP's reserved_bandwidth on the interfaces of its path and 0
\* elsewhere; every node of the model is a vertex.
C23_RoutedLspGraph ==
    last.op = "get_shortest_path_for_routed_lsp" =>
        /\ ret.edges = {<<owner(i), remote(i), interface_objects[i].cost>> :
                            i \in eligible_interfaces(ret.lsp, ret.needed_bw)}
        /\ node_objects \subseteq ret.nodes

C23_Witness ==
    /\ last.op = "get_shortest_path_for_routed_lsp"
    /\ \E i \in Range(lsp_path[ret.lsp].interfaces) :
          /\ reservable_bandwidth(interface_objects[i]) < ret.needed_bw
          /\ <<owner(i), remote(i), interface_objects[i].cost>> \in ret.edges
    /\ \E j \in Ints : <<owner(j), remote(j), interface_objects[j].cost>> \notin ret.edges

\* the interfaces the last add_circuit call created
new_interfaces == {i \in Ints : <<interface_objects[i].name, owner(i)>> \in ret.keys}

\* C24: add_circuit called with failed=True creates the Circuit in a failed
\* state: both of its new interfaces have failed = true when the call
\* returns.
C24_AddCircuitFailed ==
    (Returned("add_circuit") /\ last.raise_exception) =>
        \A i \in new_interfaces : failed(i)

\* two distinct interfaces have the same (owning node, remote node) pair
same_node_pair ==
    \E i, j \in Ints : i # j /\ owner(i) = owner(j) /\ remote(i) = remote(j)

\* C25: multiple_links_between_nodes returns a non-empty list if and only
\* if two distinct interfaces of the model have the same (owning node,
\* remote node) ordered pair, for every choice of node names, names with
\* the '-' character included.
C25_ParallelLinksIffSamePair ==
    last.op = "multiple_links_between_nodes" =>
        (ret.parallel_links # <<>> <=> same_node_pair)

\* the equivalence on the models none of whose interfaces joins a node
\* with '-' in its name
C25_WithoutDash ==
    (/\ last.op = "multiple_links_between_nodes"
     /\ \A i \in Ints : {owner(i), remote(i)} \subseteq Nodes) =>
        (ret.parallel_links # <<>> <=> same_node_pair)

\* the SRLGs that have node n in their node set and are not in n's srlgs
missing_srlgs(n) ==
    {s \in srlg_objects : n \in srlg_node_objects(s) /\ s \notin node_srlgs[n]}

\* C26: validate_srlg_nodes returns a dict with a key for exactly the nodes
\* that are in some SRLG's node set without having that SRLG in their own
\* srlgs set, and the value of each such node is the list of the names of
\* all such SRLGs.
C26_SrlgErrorsComplete ==
    last.op = "validate_srlg_nodes" =>
        /\ DOMAIN ret.srlg_errors = {n \in node_objects : missing_srlgs(n) # {}}
        /\ \A n \in DOMAIN ret.srlg_errors :
              /\ Range(ret.srlg_errors[n]) = missing_srlgs(n)
              /\ Len(ret.srlg_errors[n]) = Cardinality(missing_srlgs(n))

\* the keys of the dict are the nodes the claim names
C26_SrlgErrorsKeys ==
    last.op = "validate_srlg_nodes" =>
        DOMAIN ret.srlg_errors = {n \in node_objects : missing_srlgs(n) # {}}

\* C28: SRLGs have independent membership: for two SRLGs created by
\* add_srlg with different names, adding a node to the member set of one
\* never changes the member node set of the other.
C28_IndependentMembership ==
    [][\A s, t \in srlg_objects :
          (s # t /\ last'.op = "add_to_srlg" /\ last'.srlg = s) =>
              srlg_node_objects(t)' = srlg_node_objects(t)]_vars

\* the interfaces of the path of LSP l and of the paths of demand d
lsp_interfaces(l) == Range(lsp_path[l].interfaces)
demand_interfaces(d) ==
    UNION {Range(demand_path[d].paths[k]) : k \in DOMAIN demand_path[d].paths}

\* C27: after update_simulation returns, every failed interface has
\* reserved_bandwidth = 0 and traffic = 0, and no LSP path and no Demand
\* path that is not 'Unrouted' contains a failed interface.
C27_NothingOnFailedInterfaces ==
    Returned("update_simulation") =>
        /\ \A i \in Ints :
              failed(i) => /\ interface_objects[i].reserved_bandwidth = 0
                           /\ interface_objects[i].traffic = 0
        /\ \A l \in DOMAIN rsvp_lsp_objects :
              lsp_path[l].routed => \A i \in lsp_interfaces(l) : ~failed(i)
        /\ \A d \in DOMAIN demand_objects :
              demand_path[d].routed => \A i \in demand_interfaces(d) : ~failed(i)

C27_Witness ==
    /\ Returned("update_simulation")
    /\ \E i \in Ints : failed(i)
    /\ \E l \in DOMAIN rsvp_lsp_objects : lsp_path[l].routed /\ lsp_interfaces(l) # {}
    /\ \E d \in DOMAIN demand_objects : demand_path[d].routed /\ demand_interfaces(d) # {}

\* no two interfaces have the same (name, owning node name) identity
unique_identities(I) ==
    \A i, j \in DOMAIN I : (I[i].name = I[j].name /\ I[i].node = I[j].node) => i = j

\* C29: in every state reachable by add_circuit and change_interface_name
\* calls that return without raising, no two interfaces of the model have
\* the same (name, owning node name) identity: the model starts that way,
\* and a call that returns without raising keeps it that way.
C29_IdentityStaysUnique ==
    [][(unique_identities(interface_objects) /\ last'.exc = "none") =>
           unique_identities(interface_objects')]_vars

\* add_circuit alone keeps the identities unique when it returns
C29_AddCircuitKeepsUnique ==
    [][(/\ unique_identities(interface_objects)
        /\ last'.op = "add_circuit" /\ last'.exc = "none") =>
           unique_identities(interface_objects')]_vars

\* C30: add_circuit is all-or-nothing: when it raises ModelException
\* because validation fails, the model's interface set is the same as
\* before the call.
C30_AddCircuitAllOrNothing ==
    [][(last'.op = "add_circuit" /\ last'.exc = "ModelException") =>
           interface_objects' = interface_objects]_vars

====
